---- MODULE Spec2Model ----
(***************************************************************************)
(* databuildcheck: consistency of a dbt manifest with the compiled SQL of  *)
(* its models.  The model covers the manifest lookup table                 *)
(* (manifest.py), the table-reference checker (checks/sql_table_check.py)  *)
(* and the column checker (checks/sql_column_check.py).                    *)
(*                                                                         *)
(* A Python str is a sequence of one-character strings, so that lower(),   *)
(* split(".") and the f-string joins are computed and not assumed.  The    *)
(* tree sqlglot returns is an input: a record of the CTE definitions, the  *)
(* projection lists and the Table nodes the checkers walk.                 *)
(***************************************************************************)
EXTENDS Naturals, Integers, Sequences, FiniteSets, TLC

VARIABLES
    manifest_data,           \* DbtManifest._manifest_data: [nodes, sources]
    sql_files,               \* the compiled-SQL directory: node id -> file content
    database_substitutions,  \* SqlTableChecker.database_substitutions
    schema_substitutions,    \* SqlTableChecker.schema_substitutions
    referenceable_tables,    \* what get_all_referenceable_tables last returned
    column_results,          \* node id -> last result of check_model_columns
    table_results,           \* node id -> last result of check_model_table_references
    call,                    \* one invocation of a helper: [fn, arg, done, ret]
    run                      \* main's run of check_all_models: the loop's position
                             \* and the results appended so far

vars == <<manifest_data, sql_files, database_substitutions, schema_substitutions,
          referenceable_tables, column_results, table_results, call, run>>

(***************************************************************************)
(* Bounds of the model.                                                    *)
(***************************************************************************)
MaxTables == 2    \* Table nodes in one generated SQL tree
MaxSubst == 2     \* entries in one substitution map

(***************************************************************************)
(* Python values.                                                          *)
(***************************************************************************)
\* None: no one-character string has four characters, so it is no str.
None == <<"None">>

\* None where the value is a tree node otherwise (a record, which is no tuple).
NoneNode == [type |-> "None"]

\* bool(x) of a str or None, as `if x:` tests it.
Truthy(x) == x # None /\ x # <<>>

UpperLetters == <<"A", "B", "C", "D", "E", "F", "G", "H", "I", "J", "K", "L", "M",
                  "N", "O", "P", "Q", "R", "S", "T", "U", "V", "W", "X", "Y", "Z">>

LowerLetters == <<"a", "b", "c", "d", "e", "f", "g", "h", "i", "j", "k", "l", "m",
                  "n", "o", "p", "q", "r", "s", "t", "u", "v", "w", "x", "y", "z">>

LowerChar(c) ==
    IF \E i \in DOMAIN UpperLetters : UpperLetters[i] = c
    THEN LowerLetters[CHOOSE i \in DOMAIN UpperLetters : UpperLetters[i] = c]
    ELSE c

\* str.lower()
Lower(s) == [i \in DOMAIN s |-> LowerChar(s[i])]

\* "." in s
HasDot(s) == \E i \in DOMAIN s : s[i] = "."

\* s.split(".")
RECURSIVE Split(_)
Split(s) ==
    IF ~HasDot(s) THEN <<s>>
    ELSE LET i == CHOOSE k \in DOMAIN s : s[k] = "." /\ \A j \in 1..(k - 1) : s[j] # "."
         IN  <<SubSeq(s, 1, i - 1)>> \o Split(SubSeq(s, i + 1, Len(s)))

\* f"{a}.{b}"
Dotted2(a, b) == a \o <<".">> \o b

\* f"{a}.{b}.{c}"
Dotted3(a, b, c) == a \o <<".">> \o b \o <<".">> \o c

\* dict.get(key, default)
DictGet(d, key, default) == IF key \in DOMAIN d THEN d[key] ELSE default

\* the elements of a list
Range(seq) == {seq[i] : i \in DOMAIN seq}

(***************************************************************************)
(* manifest.py: DbtManifest.  A manifest is [nodes, sources]; each is a    *)
(* Python dict, kept as the list of its items in insertion order, every    *)
(* item a record holding its key (unique_id) and the fields the checks     *)
(* read.  A unique_id is the list of its dot-separated parts, so           *)
(* <<"model", "m1">> is "model.m1".  A field the entry lacks holds the     *)
(* default its .get() gives.                                               *)
(***************************************************************************)
\* a mutant of get_model_nodes: every node is taken for a model
get_model_nodes_every_node(manifest) == manifest.nodes

\* node_id.startswith("model.")
get_model_nodes(manifest) ==
    SelectSeq(manifest.nodes, LAMBDA n : n.unique_id[1] = "model")

\* Restriction to a list of files.  cli.py passes the list to the manifest
\* (DbtManifest(manifest, restrict_files)) and test_patch_path_fix.py sets
\* manifest.restrict_to_files; the manifest.py at hand has neither, so these
\* two definitions follow what the caller and the test expect.  A path is the
\* list of its parts, a package prefix "jaffle_shop://" being the parts
\* "jaffle_shop" and "://".
StripPackagePrefix(patch_path) ==
    IF \E i \in DOMAIN patch_path : patch_path[i] = "://"
    THEN LET i == CHOOSE k \in DOMAIN patch_path :
                      patch_path[k] = "://" /\ \A j \in 1..(k - 1) : patch_path[j] # "://"
         IN  SubSeq(patch_path, i + 1, Len(patch_path))
    ELSE patch_path

\* get_model_nodes of a manifest that has a restrict_to_files set
get_model_nodes_restricted(manifest, restrict_to_files) ==
    SelectSeq(get_model_nodes(manifest),
              LAMBDA n : \/ n.original_file_path \in restrict_to_files
                         \/ /\ Truthy(n.patch_path)
                            /\ StripPackagePrefix(n.patch_path) \in restrict_to_files)

\* source_id.startswith("source.")
get_source_nodes(manifest) ==
    SelectSeq(manifest.sources, LAMBDA n : n.unique_id[1] = "source")

\* self.nodes.get(node_id, {}) : the item under the key, or no item
NodesGet(manifest, node_id) ==
    SelectSeq(manifest.nodes, LAMBDA n : n.unique_id = node_id)

get_model_columns(manifest, node_id) ==
    IF NodesGet(manifest, node_id) = <<>> THEN {}
    ELSE NodesGet(manifest, node_id)[1].columns

get_model_original_file_path(manifest, node_id) ==
    IF NodesGet(manifest, node_id) = <<>> THEN None
    ELSE NodesGet(manifest, node_id)[1].original_file_path

\* the mutant of _generate_table_references: the keys keep the manifest's case
_generate_table_references_as_written(name, schema, database) ==
    (IF Truthy(name) THEN <<name>> ELSE <<>>)
    \o (IF Truthy(schema) /\ Truthy(name) THEN <<Dotted2(schema, name)>> ELSE <<>>)
    \o (IF Truthy(database) /\ Truthy(schema) /\ Truthy(name)
        THEN <<Dotted3(database, schema, name)>> ELSE <<>>)

_generate_table_references(name, schema, database) ==
    (IF Truthy(name) THEN <<Lower(name)>> ELSE <<>>)
    \o (IF Truthy(schema) /\ Truthy(name)
        THEN <<Dotted2(Lower(schema), Lower(name))>> ELSE <<>>)
    \o (IF Truthy(database) /\ Truthy(schema) /\ Truthy(name)
        THEN <<Dotted3(Lower(database), Lower(schema), Lower(name))>> ELSE <<>>)

\* for ref in table_refs: referenceable_tables[ref] = {...}, over the items in order
RECURSIVE AddReferences(_, _, _)
AddReferences(tables, items, type) ==
    IF items = <<>> THEN tables
    ELSE LET d == Head(items)
             refs == Range(_generate_table_references(d.name, d.schema, d.database))
             entry == [type |-> type, unique_id |-> d.unique_id, name |-> d.name,
                       database |-> d.database, schema |-> d.schema]
         IN  AddReferences([k \in DOMAIN tables \cup refs |->
                                IF k \in refs THEN entry ELSE tables[k]],
                           Tail(items), type)

\* a mutant of get_all_referenceable_tables: the sources are inserted first
get_all_referenceable_tables_sources_first(manifest) ==
    AddReferences(AddReferences(<<>>, get_source_nodes(manifest), "source"),
                  get_model_nodes(manifest), "model")

get_all_referenceable_tables(manifest) ==
    AddReferences(AddReferences(<<>>, get_model_nodes(manifest), "model"),
                  get_source_nodes(manifest), "source")

(***************************************************************************)
(* The compiled SQL directory and the parser.  A path is the list of its   *)
(* stem and, when it has one, its suffix.  sql_files maps each existing    *)
(* file to its content: text sqlglot refuses (type "Garbage"), or the tree *)
(* sqlglot.parse_one returns for it:                                       *)
(*   [type, ctes, branches], type "Select", "Union" or "Command",          *)
(*   ctes a list of [alias, body], branches the list of the Select nodes   *)
(*   outside the WITH clause in breadth-first order, and a Select (a body  *)
(*   or a branch) [expressions, tables]: its projection list and the Table *)
(*   nodes of its FROM and JOIN clauses, each [catalog, db, name].         *)
(***************************************************************************)
\* sql_file_path.exists()
Exists(files, sql_file_path) == sql_file_path \in DOMAIN files

\* sqlglot.parse_one(sql_content, dialect): raises on text it cannot parse
ParseRaises(sql_content) == sql_content.type = "Garbage"

\* the exception parse_one raises, as str(e)
ParseErrorText == <<"ParseError">>

\* a mutant of _get_sql_file_path: every model is looked for in one file
_get_sql_file_path_shared(original_file_path) == <<"m1", ".sql">>

\* Path(original_file_path) with ".sql" removed and put back, under compiled_sql_path
_get_sql_file_path(original_file_path) ==
    LET sql_file == IF original_file_path[Len(original_file_path)] = ".sql"
                    THEN SubSeq(original_file_path, 1, Len(original_file_path) - 1)
                    ELSE original_file_path
    IN  sql_file \o <<".sql">>

\* parsed_sql.find_all(exp.CTE)
FindAllCTE(parsed_sql) == parsed_sql.ctes

\* every Select node of the tree: the branches and the CTE bodies
FindAllSelect(parsed_sql) ==
    Range(parsed_sql.branches) \cup {c.body : c \in Range(parsed_sql.ctes)}

\* a mutant of FindAllTable: the WITH clause is not walked
FindAllTable_outer_query(parsed_sql) ==
    UNION {Range(sel.tables) : sel \in Range(parsed_sql.branches)}

\* parsed_sql.find_all(exp.Table)
FindAllTable(parsed_sql) ==
    UNION {Range(sel.tables) : sel \in FindAllSelect(parsed_sql)}

(***************************************************************************)
(* checks/sql_table_check.py: SqlTableChecker.  self is                    *)
(* [manifest, database_substitutions, schema_substitutions].               *)
(***************************************************************************)
\* catalog, db and name, those that are not empty, in this order
TableParts(table) ==
    (IF Truthy(table.catalog) THEN <<table.catalog>> ELSE <<>>)
    \o (IF Truthy(table.db) THEN <<table.db>> ELSE <<>>)
    \o (IF Truthy(table.name) THEN <<table.name>> ELSE <<>>)

_normalize_table_reference(self, table) ==
    LET parts == TableParts(table)
    IN  IF parts = <<>> THEN None
        ELSE IF Len(parts) >= 3
        THEN Dotted3(Lower(DictGet(self.database_substitutions, parts[1], parts[1])),
                     Lower(DictGet(self.schema_substitutions, parts[2], parts[2])),
                     Lower(parts[3]))
        ELSE IF Len(parts) = 2
        THEN Dotted2(Lower(DictGet(self.schema_substitutions, parts[1], parts[1])),
                     Lower(parts[2]))
        ELSE Lower(parts[1])

\* the mutant of _extract_table_references: the CTE aliases are compared as written
_extract_table_references_case_sensitive(self, parsed_sql) ==
    LET cte_names == {c.alias : c \in {x \in Range(FindAllCTE(parsed_sql)) : Truthy(x.alias)}}
        names == {_normalize_table_reference(self, t) : t \in FindAllTable(parsed_sql)}
    IN  {n \in names : Truthy(n) /\ ~(~HasDot(n) /\ n \in cte_names)}

\* a mutant of _extract_table_references: a Table node is dropped when its
\* name is a CTE alias, whatever qualifies it
_extract_table_references_by_name(self, parsed_sql) ==
    LET cte_names == {Lower(c.alias) :
                        c \in {x \in Range(FindAllCTE(parsed_sql)) : Truthy(x.alias)}}
        kept == {t \in FindAllTable(parsed_sql) : Lower(t.name) \notin cte_names}
        names == {_normalize_table_reference(self, t) : t \in kept}
    IN  {n \in names : Truthy(n)}

_extract_table_references(self, parsed_sql) ==
    LET cte_names == {Lower(c.alias) :
                        c \in {x \in Range(FindAllCTE(parsed_sql)) : Truthy(x.alias)}}
        names == {_normalize_table_reference(self, t) : t \in FindAllTable(parsed_sql)}
    IN  {n \in names : Truthy(n) /\ ~(~HasDot(n) /\ Lower(n) \in cte_names)}

\* a mutant of _apply_substitutions_to_reference: the first segment of a
\* two-segment reference is looked up in the database map before the schema map
_apply_substitutions_to_reference_database_first(self, table_ref) ==
    LET parts == Split(table_ref)
    IN  IF Len(parts) = 3
        THEN Dotted3(DictGet(self.database_substitutions, parts[1], parts[1]),
                     DictGet(self.schema_substitutions, parts[2], parts[2]),
                     parts[3])
        ELSE IF Len(parts) = 2
        THEN Dotted2(DictGet(self.database_substitutions, parts[1],
                             DictGet(self.schema_substitutions, parts[1], parts[1])),
                     parts[2])
        ELSE table_ref

\* the mutant of _apply_substitutions_to_reference: the schema map is used for
\* the database segment too
_apply_substitutions_to_reference_schema_only(self, table_ref) ==
    LET parts == Split(table_ref)
    IN  IF Len(parts) = 3
        THEN Dotted3(DictGet(self.schema_substitutions, parts[1], parts[1]),
                     DictGet(self.schema_substitutions, parts[2], parts[2]),
                     parts[3])
        ELSE IF Len(parts) = 2
        THEN Dotted2(DictGet(self.schema_substitutions, parts[1], parts[1]), parts[2])
        ELSE table_ref

_apply_substitutions_to_reference(self, table_ref) ==
    LET parts == Split(table_ref)
    IN  IF Len(parts) = 3
        THEN Dotted3(DictGet(self.database_substitutions, parts[1], parts[1]),
                     DictGet(self.schema_substitutions, parts[2], parts[2]),
                     parts[3])
        ELSE IF Len(parts) = 2
        THEN Dotted2(DictGet(self.schema_substitutions, parts[1], parts[1]), parts[2])
        ELSE table_ref

_apply_table_reference_substitutions(self, table_references) ==
    {_apply_substitutions_to_reference(self, ref) : ref \in table_references}

\* An entry of result["errors"]: the message and the value formatted into it.
Error(msg, arg) == [msg |-> msg, arg |-> arg]

\* referenceable_tables = self.manifest.get_all_referenceable_tables()
\* the mutant: the substitution maps are applied to the catalog keys as well
LookupForMatching_substituted(self) ==
    LET t == get_all_referenceable_tables(self.manifest)
    IN  [k \in {_apply_substitutions_to_reference(self, x) : x \in DOMAIN t} |->
            t[CHOOSE x \in DOMAIN t : _apply_substitutions_to_reference(self, x) = k]]

LookupForMatching(self) == get_all_referenceable_tables(self.manifest)

\* the mutant of InvalidRefs: a reference is dropped from neither set
InvalidRefs_all(table_references, lookup) == table_references

\* a mutant of ValidRefs: a reference is matched on its last segment
ValidRefs_by_name(table_references, lookup) ==
    {ref \in table_references : Split(ref)[Len(Split(ref))] \in DOMAIN lookup}

\* the loop over table_references: the references that are keys of the lookup table
ValidRefs(table_references, lookup) ==
    {ref \in table_references : ref \in DOMAIN lookup}

\* the same loop: the references that are not
InvalidRefs(table_references, lookup) ==
    {ref \in table_references : ref \notin DOMAIN lookup}

\* a mutant of check_model_table_references: a parse failure records no error
check_model_table_references_silent_parse_failure(self, node_id, files) ==
    LET original_file_path == get_model_original_file_path(self.manifest, node_id)
        result == [node_id |-> node_id,
                   original_file_path |-> original_file_path,
                   sql_file_exists |-> FALSE,
                   sql_parsed |-> FALSE,
                   table_references |-> {},
                   valid_references |-> {},
                   invalid_references |-> {},
                   references_valid |-> FALSE,
                   errors |-> <<>>,
                   sql_file_path |-> None]
    IN
    IF ~Truthy(original_file_path)
    THEN [result EXCEPT !.errors = Append(@, Error("No original_file_path found in manifest", None))]
    ELSE
    LET sql_file_path == _get_sql_file_path(original_file_path) IN
    IF ~Exists(files, sql_file_path)
    THEN [result EXCEPT !.sql_file_path = sql_file_path,
                        !.errors = Append(@, Error("SQL file not found", sql_file_path))]
    ELSE IF ParseRaises(files[sql_file_path])
    THEN [result EXCEPT !.sql_file_path = sql_file_path,
                        !.sql_file_exists = TRUE]
    ELSE
    LET parsed_sql == files[sql_file_path]
        raw_table_references == _extract_table_references(self, parsed_sql)
        table_references == _apply_table_reference_substitutions(self, raw_table_references)
        lookup == LookupForMatching(self)
        valid_refs == ValidRefs(table_references, lookup)
        invalid_refs == InvalidRefs(table_references, lookup)
    IN  [result EXCEPT !.sql_file_path = sql_file_path,
                       !.sql_file_exists = TRUE,
                       !.sql_parsed = TRUE,
                       !.table_references = table_references,
                       !.valid_references = valid_refs,
                       !.invalid_references = invalid_refs,
                       !.references_valid = (Cardinality(invalid_refs) = 0)]

check_model_table_references(self, node_id, files) ==
    LET original_file_path == get_model_original_file_path(self.manifest, node_id)
        result == [node_id |-> node_id,
                   original_file_path |-> original_file_path,
                   sql_file_exists |-> FALSE,
                   sql_parsed |-> FALSE,
                   table_references |-> {},
                   valid_references |-> {},
                   invalid_references |-> {},
                   references_valid |-> FALSE,
                   errors |-> <<>>,
                   sql_file_path |-> None]
    IN
    IF ~Truthy(original_file_path)
    THEN [result EXCEPT !.errors = Append(@, Error("No original_file_path found in manifest", None))]
    ELSE
    LET sql_file_path == _get_sql_file_path(original_file_path) IN
    IF ~Exists(files, sql_file_path)
    THEN [result EXCEPT !.sql_file_path = sql_file_path,
                        !.errors = Append(@, Error("SQL file not found", sql_file_path))]
    ELSE IF ParseRaises(files[sql_file_path])
    THEN [result EXCEPT !.sql_file_path = sql_file_path,
                        !.sql_file_exists = TRUE,
                        !.errors = Append(@, Error("Error processing SQL file", ParseErrorText))]
    ELSE
    LET parsed_sql == files[sql_file_path]
        raw_table_references == _extract_table_references(self, parsed_sql)
        table_references == _apply_table_reference_substitutions(self, raw_table_references)
        lookup == LookupForMatching(self)
        valid_refs == ValidRefs(table_references, lookup)
        invalid_refs == InvalidRefs(table_references, lookup)
    IN  [result EXCEPT !.sql_file_path = sql_file_path,
                       !.sql_file_exists = TRUE,
                       !.sql_parsed = TRUE,
                       !.table_references = table_references,
                       !.valid_references = valid_refs,
                       !.invalid_references = invalid_refs,
                       !.references_valid = (Cardinality(invalid_refs) = 0)]

(***************************************************************************)
(* checks/sql_column_check.py: SqlColumnChecker.  self is [manifest].      *)
(***************************************************************************)
\* None (NoneNode) when the file is missing or parse_one raises, else the tree
_parse_sql_file(files, sql_file_path) ==
    IF ~Exists(files, sql_file_path) THEN NoneNode
    ELSE IF ParseRaises(files[sql_file_path]) THEN NoneNode
    ELSE files[sql_file_path]

\* a mutant of FinalSelect: the first Select in the text, which is the body of
\* the first CTE when there is a WITH clause
FinalSelect_first_in_text(parsed_sql) ==
    IF parsed_sql.ctes # <<>> THEN parsed_sql.ctes[1].body
    ELSE IF parsed_sql.branches = <<>> THEN NoneNode
    ELSE parsed_sql.branches[1]

\* the Select whose projection is read: the statement itself when it is a
\* Select, else parsed_sql.find(exp.Select), the first Select breadth-first
FinalSelect(parsed_sql) ==
    IF parsed_sql.branches = <<>> THEN NoneNode ELSE parsed_sql.branches[1]

\* a mutant of ColumnName: the name under the alias is preferred to the alias
ColumnName_name_first(expression) ==
    IF Truthy(expression.name) THEN expression.name
    ELSE IF expression.type = "Alias" THEN expression.alias
    ELSE None

\* the name one projected expression adds, None when it adds none
ColumnName(expression) ==
    IF expression.type = "Alias" THEN expression.alias
    ELSE IF expression.type = "Column" THEN expression.name
    ELSE IF Truthy(expression.name) THEN expression.name
    ELSE None

_extract_columns_from_sql(parsed_sql) ==
    LET final_select == FinalSelect(parsed_sql)
    IN  IF final_select = NoneNode THEN {}
        ELSE {ColumnName(e) : e \in Range(final_select.expressions)} \ {None}

\* the mutant of ColumnsMatch: only the declared columns are looked for
ColumnsMatch_missing_only(missing_in_sql, extra_in_sql) ==
    Cardinality(missing_in_sql) = 0

\* len(missing_in_sql) == 0 and len(extra_in_sql) == 0
ColumnsMatch(missing_in_sql, extra_in_sql) ==
    Cardinality(missing_in_sql) = 0 /\ Cardinality(extra_in_sql) = 0

\* the mutant of ExtraInSql: the declared columns are not taken out
ExtraInSql_all(manifest_column_names, sql_columns) == sql_columns

\* a mutant of MissingInSql: the difference is taken the other way round
MissingInSql_swapped(manifest_column_names, sql_columns) ==
    sql_columns \ manifest_column_names

\* manifest_column_names - sql_columns
MissingInSql(manifest_column_names, sql_columns) == manifest_column_names \ sql_columns

\* a mutant of ExtraInSql: the names are compared without regard to case
ExtraInSql_ignoring_case(manifest_column_names, sql_columns) ==
    {c \in sql_columns : Lower(c) \notin {Lower(d) : d \in manifest_column_names}}

\* sql_columns - manifest_column_names
ExtraInSql(manifest_column_names, sql_columns) == sql_columns \ manifest_column_names

\* a mutant of check_model_columns: sql_file_exists is set before the file is
\* looked for
check_model_columns_flag_before_test(self, node_id, files) ==
    LET original_file_path == get_model_original_file_path(self.manifest, node_id)
        manifest_columns == get_model_columns(self.manifest, node_id)
        result == [node_id |-> node_id,
                   original_file_path |-> original_file_path,
                   sql_file_exists |-> FALSE,
                   sql_parsed |-> FALSE,
                   manifest_columns |-> manifest_columns,
                   sql_columns |-> {},
                   columns_match |-> FALSE,
                   missing_in_sql |-> {},
                   extra_in_sql |-> {},
                   errors |-> <<>>,
                   sql_file_path |-> None]
    IN
    IF ~Truthy(original_file_path)
    THEN [result EXCEPT !.errors = Append(@, Error("No original_file_path found in manifest", None))]
    ELSE
    LET sql_file_path == _get_sql_file_path(original_file_path)
        parsed_sql == _parse_sql_file(files, sql_file_path)
    IN
    IF ~Exists(files, sql_file_path)
    THEN [result EXCEPT !.sql_file_path = sql_file_path,
                        !.sql_file_exists = TRUE,
                        !.errors = Append(@, Error("SQL file not found", sql_file_path))]
    ELSE IF parsed_sql = NoneNode
    THEN [result EXCEPT !.sql_file_path = sql_file_path,
                        !.sql_file_exists = TRUE,
                        !.errors = Append(@, Error("Failed to parse SQL file", sql_file_path))]
    ELSE
    LET sql_columns == _extract_columns_from_sql(parsed_sql)
        missing_in_sql == MissingInSql(manifest_columns, sql_columns)
        extra_in_sql == ExtraInSql(manifest_columns, sql_columns)
    IN  [result EXCEPT !.sql_file_path = sql_file_path,
                       !.sql_file_exists = TRUE,
                       !.sql_parsed = TRUE,
                       !.sql_columns = sql_columns,
                       !.missing_in_sql = missing_in_sql,
                       !.extra_in_sql = extra_in_sql,
                       !.columns_match = ColumnsMatch(missing_in_sql, extra_in_sql)]

check_model_columns(self, node_id, files) ==
    LET original_file_path == get_model_original_file_path(self.manifest, node_id)
        manifest_columns == get_model_columns(self.manifest, node_id)
        result == [node_id |-> node_id,
                   original_file_path |-> original_file_path,
                   sql_file_exists |-> FALSE,
                   sql_parsed |-> FALSE,
                   manifest_columns |-> manifest_columns,
                   sql_columns |-> {},
                   columns_match |-> FALSE,
                   missing_in_sql |-> {},
                   extra_in_sql |-> {},
                   errors |-> <<>>,
                   sql_file_path |-> None]
    IN
    IF ~Truthy(original_file_path)
    THEN [result EXCEPT !.errors = Append(@, Error("No original_file_path found in manifest", None))]
    ELSE
    LET sql_file_path == _get_sql_file_path(original_file_path)
        parsed_sql == _parse_sql_file(files, sql_file_path)
    IN
    IF ~Exists(files, sql_file_path)
    THEN [result EXCEPT !.sql_file_path = sql_file_path,
                        !.errors = Append(@, Error("SQL file not found", sql_file_path))]
    ELSE IF parsed_sql = NoneNode
    THEN [result EXCEPT !.sql_file_path = sql_file_path,
                        !.sql_file_exists = TRUE,
                        !.errors = Append(@, Error("Failed to parse SQL file", sql_file_path))]
    ELSE
    LET sql_columns == _extract_columns_from_sql(parsed_sql)
        missing_in_sql == MissingInSql(manifest_columns, sql_columns)
        extra_in_sql == ExtraInSql(manifest_columns, sql_columns)
    IN  [result EXCEPT !.sql_file_path = sql_file_path,
                       !.sql_file_exists = TRUE,
                       !.sql_parsed = TRUE,
                       !.sql_columns = sql_columns,
                       !.missing_in_sql = missing_in_sql,
                       !.extra_in_sql = extra_in_sql,
                       !.columns_match = ColumnsMatch(missing_in_sql, extra_in_sql)]

(***************************************************************************)
(* The inputs of the model: manifests, substitution maps and compiled SQL  *)
(* files, drawn from small sets.  Identifiers differ in case ("a", "A") so *)
(* that lower-casing is visible, and one replacement value holds a dot.    *)
(***************************************************************************)
Table(catalog, db, name) == [catalog |-> catalog, db |-> db, name |-> name]

Column(name) == [type |-> "Column", alias |-> <<>>, name |-> name]

Alias(alias, name) == [type |-> "Alias", alias |-> alias, name |-> name]

\* an expression that is neither: a call over a column (name ""), an anonymous
\* call f() (name "f"), a star (exp.Star, whose name is "*").  A qualified
\* star t.* parses as a Column whose name is "*".
Other(name) == [type |-> "Other", alias |-> <<>>, name |-> name]

Select(expressions, tables) == [expressions |-> expressions, tables |-> tables]

CTE(alias, body) == [alias |-> alias, body |-> body]

Tree(type, ctes, branches) == [type |-> type, ctes |-> ctes, branches |-> branches]

Garbage == [type |-> "Garbage"]

\* the subsets of S with at most n elements
SubsetsUpTo(S, n) == {X \in SUBSET S : Cardinality(X) <= n}

\* a set as a list, in some order
RECURSIVE SetToSeq(_)
SetToSeq(S) ==
    IF S = {} THEN <<>>
    ELSE LET x == CHOOSE y \in S : TRUE IN <<x>> \o SetToSeq(S \ {x})

\* the dicts with at most MaxSubst keys among keys and values among values
SubstMaps(keys, values) == UNION {[K -> values] : K \in SubsetsUpTo(keys, MaxSubst)}

ModelId1 == <<"model", "m1">>

ModelId2 == <<"model", "m2">>

TestId == <<"test", "t1">>

SourceId == <<"source", "s1">>

Path1 == <<"m1", ".sql">>

Path2 == <<"m2">>

\* Two models, a test node and a source.  The first model's database varies,
\* and the second model may lack original_file_path.
Manifests ==
    {[nodes |->
        << [unique_id |-> ModelId1, name |-> <<"B">>, schema |-> <<"a">>,
            database |-> database, original_file_path |-> Path1,
            columns |-> {<<"x">>, <<"y">>}],
           [unique_id |-> TestId, name |-> <<"t">>, schema |-> <<"a">>,
            database |-> <<>>, original_file_path |-> None, columns |-> {}],
           [unique_id |-> ModelId2, name |-> <<"a">>, schema |-> <<>>,
            database |-> <<>>, original_file_path |-> path2, columns |-> {<<"x">>}] >>,
      sources |->
        << [unique_id |-> SourceId, name |-> <<"b">>, schema |-> <<"B">>,
            database |-> <<>>] >>] :
     database \in {<<>>, <<"A">>},
     path2 \in {None, Path2}}

\* the Table nodes of the generated files
FileTables ==
    {Table(<<>>, <<>>, <<"a">>), Table(<<>>, <<"a">>, <<"b">>),
     Table(<<"A">>, <<"a">>, <<"b">>)}

\* the files of the first model: a plain SELECT x, ... AS y over some tables, or
\* WITH A AS (SELECT x FROM B.b) SELECT X, <literal> over the same
FileTrees ==
    {Tree("Select", <<>>,
          <<Select(<<Column(<<"x">>), Alias(<<"y">>, <<"x">>)>>, SetToSeq(tables))>>) :
        tables \in SubsetsUpTo(FileTables, MaxTables)}
    \cup
    {Tree("Select",
          <<CTE(<<"A">>, Select(<<Column(<<"x">>)>>, <<Table(<<>>, <<"B">>, <<"b">>)>>))>>,
          <<Select(<<Column(<<"X">>), Other(<<>>)>>, SetToSeq(tables))>>) :
        tables \in SubsetsUpTo(FileTables, MaxTables)}

\* the file of the second model: SELECT x, z FROM A
FileTree2 ==
    Tree("Select", <<>>,
         <<Select(<<Column(<<"x">>), Column(<<"z">>)>>, <<Table(<<>>, <<>>, <<"A">>)>>)>>)

\* the compiled SQL directory: each file missing, unparseable or a tree
FileSystems ==
    {[p \in P |-> IF p = _get_sql_file_path(Path1) THEN c1 ELSE c2] :
        P \in SUBSET {_get_sql_file_path(Path1), _get_sql_file_path(Path2)},
        c1 \in {Garbage} \cup FileTrees,
        c2 \in {Garbage, FileTree2}}

\* the key is lower-case and the replacement is not
DatabaseMaps == SubstMaps({<<"a">>}, {<<"B">>})

\* the restrictions of {a: b, b: A}, where a replacement is itself a key
SchemaMaps ==
    {[k \in K |-> IF k = <<"a">> THEN <<"b">> ELSE <<"A">>] :
        K \in SubsetsUpTo({<<"a">>, <<"b">>}, MaxSubst)}

\* the names of the spec's scenarios D and E
RAWDB == <<"r", "a", "w", "_", "d", "b">>

RAW == <<"r", "a", "w">>

PRODDB == <<"p", "r", "o", "d", "_", "d", "b">>

PRODRAW == <<"p", "r", "o", "d", "_", "r", "a", "w">>

RAWDB_RAW_USERS == <<"r", "a", "w", "_", "d", "b", ".", "r", "a", "w", ".", "u", "s", "e", "r", "s">>

PRODDB_PRODRAW_USERS == <<"p", "r", "o", "d", "_", "d", "b", ".", "p", "r", "o", "d", "_", "r", "a", "w", ".", "u", "s", "e", "r", "s">>

USERS == <<"u", "s", "e", "r", "s">>

PUBLIC == <<"p", "u", "b", "l", "i", "c">>

ANALYTICS == <<"a", "n", "a", "l", "y", "t", "i", "c", "s">>

\* no helper is being invoked
IdleCall == [fn |-> "none", arg |-> <<>>, done |-> FALSE, ret |-> <<>>]

\* no check of the model has returned yet
NoResult == [node_id |-> None]

\* check_all_models is not running
IdleRun ==
    [check_tables |-> FALSE, checker |-> "none", index |-> 1, phase |-> "done",
     result |-> NoResult, column_results |-> <<>>, table_results |-> <<>>]

ModelIds == {ModelId1, ModelId2}

(***************************************************************************)
(* Spec: one run of the checkers.  The manifest is loaded, the table       *)
(* checker is constructed with its maps, the compiled SQL is on disk; then *)
(* each model is checked, in any order and any number of times.            *)
(***************************************************************************)
TableChecker ==
    [manifest |-> manifest_data,
     database_substitutions |-> database_substitutions,
     schema_substitutions |-> schema_substitutions]

ColumnChecker == [manifest |-> manifest_data]

Init ==
    /\ manifest_data \in Manifests
    /\ sql_files \in FileSystems
    /\ database_substitutions \in DatabaseMaps
    /\ schema_substitutions \in SchemaMaps
    /\ referenceable_tables = [built |-> FALSE, tables |-> <<>>]
    /\ column_results = [id \in ModelIds |-> NoResult]
    /\ table_results = [id \in ModelIds |-> NoResult]
    /\ call = IdleCall
    /\ run = IdleRun

\* SqlColumnChecker.check_model_columns(node_id)
CheckModelColumns(node_id) ==
    /\ column_results' =
         [column_results EXCEPT ![node_id] = check_model_columns(ColumnChecker, node_id, sql_files)]
    /\ UNCHANGED <<manifest_data, sql_files, database_substitutions, schema_substitutions,
                   referenceable_tables, table_results, call, run>>

\* SqlTableChecker.check_model_table_references(node_id)
CheckModelTableReferences(node_id) ==
    LET result == check_model_table_references(TableChecker, node_id, sql_files)
    IN  /\ table_results' = [table_results EXCEPT ![node_id] = result]
        /\ referenceable_tables' =
             IF result.sql_parsed
             THEN [built |-> TRUE, tables |-> LookupForMatching(TableChecker)]
             ELSE referenceable_tables
        /\ UNCHANGED <<manifest_data, sql_files, database_substitutions,
                       schema_substitutions, column_results, call, run>>

Next ==
    \E node_id \in ModelIds :
        \/ CheckModelColumns(node_id)
        \/ CheckModelTableReferences(node_id)

Spec == Init /\ [][Next]_vars

(***************************************************************************)
(* Properties of the results (checked under Spec).                         *)
(***************************************************************************)
\* the results check_model_table_references has returned so far
TableResults == {table_results[id] : id \in ModelIds} \ {NoResult}

\* the results check_model_columns has returned so far
ColumnResults == {column_results[id] : id \in ModelIds} \ {NoResult}

\* C2: in every result of check_model_table_references, early exits included,
\* valid_references and invalid_references are disjoint, their union is
\* table_references, and invalid_references = table_references - valid_references.
C2_ValidInvalidPartition ==
    \A r \in TableResults :
        /\ r.valid_references \cap r.invalid_references = {}
        /\ r.valid_references \cup r.invalid_references = r.table_references
        /\ r.invalid_references = r.table_references \ r.valid_references

\* C2 witness: a full check found a valid and an invalid reference, and another
\* model's check left early.
C2_Witness ==
    /\ \E r \in TableResults :
          r.sql_parsed /\ r.valid_references # {} /\ r.invalid_references # {}
    /\ \E r \in TableResults : ~r.sql_parsed

\* C3 as stated: in every result of check_model_columns, whatever path produced
\* it, columns_match is true iff missing_in_sql and extra_in_sql are both empty.
C3_MatchIffBothEmpty_AllPaths ==
    \A r \in ColumnResults :
        r.columns_match <=> (r.missing_in_sql = {} /\ r.extra_in_sql = {})

\* C3 amended: in every result that reached the comparison (sql_parsed),
\* columns_match is true iff both sets are empty; in every result of an early
\* exit columns_match is false and both sets are empty.
C3_MatchIffBothEmpty_WhenParsed ==
    \A r \in ColumnResults :
        /\ r.sql_parsed =>
             (r.columns_match <=> (r.missing_in_sql = {} /\ r.extra_in_sql = {}))
        /\ ~r.sql_parsed =>
             (~r.columns_match /\ r.missing_in_sql = {} /\ r.extra_in_sql = {})

\* C3 witness: one model's columns matched, another's did not, after a comparison.
C3_Witness ==
    /\ \E r \in ColumnResults : r.sql_parsed /\ r.columns_match
    /\ \E r \in ColumnResults : r.sql_parsed /\ ~r.columns_match /\ r.missing_in_sql = {}

\* C4 as stated: for all inputs, missing_in_sql, extra_in_sql and
\* manifest_columns /\ sql_columns are pairwise disjoint and their union is
\* manifest_columns \/ sql_columns.
C4_ColumnsPartition_AllInputs ==
    \A r \in ColumnResults :
        LET common == r.manifest_columns \cap r.sql_columns
        IN  /\ r.missing_in_sql \cap r.extra_in_sql = {}
            /\ r.missing_in_sql \cap common = {}
            /\ r.extra_in_sql \cap common = {}
            /\ r.missing_in_sql \cup r.extra_in_sql \cup common
                 = r.manifest_columns \cup r.sql_columns

\* C4 amended: the same partition, in every result that reached the comparison
\* (sql_parsed); an early exit reports the declared columns and three empty sets.
C4_ColumnsPartition_WhenParsed ==
    \A r \in ColumnResults :
        LET common == r.manifest_columns \cap r.sql_columns
        IN  /\ r.sql_parsed =>
                 /\ r.missing_in_sql \cap r.extra_in_sql = {}
                 /\ r.missing_in_sql \cap common = {}
                 /\ r.extra_in_sql \cap common = {}
                 /\ r.missing_in_sql \cup r.extra_in_sql \cup common
                      = r.manifest_columns \cup r.sql_columns
            /\ ~r.sql_parsed =>
                 r.missing_in_sql = {} /\ r.extra_in_sql = {} /\ r.sql_columns = {}

\* C4 witness: a comparison with a shared and an extra column, and one with
\* missing and extra columns.
C4_Witness ==
    /\ \E r \in ColumnResults :
          r.sql_parsed /\ r.extra_in_sql # {} /\ r.manifest_columns \cap r.sql_columns # {}
    /\ \E r \in ColumnResults :
          r.sql_parsed /\ r.missing_in_sql # {} /\ r.extra_in_sql # {}

\* the lower-cased dotted reference of a Table node, before any substitution
LowerDotted(table) ==
    LET parts == TableParts(table)
    IN  IF Len(parts) = 3 THEN Dotted3(Lower(parts[1]), Lower(parts[2]), Lower(parts[3]))
        ELSE IF Len(parts) = 2 THEN Dotted2(Lower(parts[1]), Lower(parts[2]))
        ELSE Lower(parts[1])

\* the tree check_model_table_references read for a result that parsed
TreeOf(r) == sql_files[r.sql_file_path]

\* the Table nodes of a tree that are not bare references to one of its CTEs
BaseTables(parsed_sql) ==
    {t \in FindAllTable(parsed_sql) :
        /\ TableParts(t) # <<>>
        /\ ~(Len(TableParts(t)) = 1
             /\ \E c \in Range(FindAllCTE(parsed_sql)) : Lower(c.alias) = Lower(t.name))}

\* C5: during one model's table check the maps are applied exactly once:
\* table_references is the single application of the maps to the lower-cased
\* dotted reference of every table node, for any maps.
C5_SubstitutedOnce ==
    \A r \in TableResults :
        r.sql_parsed =>
            r.table_references =
                {_apply_substitutions_to_reference(TableChecker, LowerDotted(t)) :
                    t \in BaseTables(TreeOf(r))}

\* the keys the manifest's descriptors generate, no substitution map consulted
ManifestKeys ==
    UNION {Range(_generate_table_references(d.name, d.schema, d.database)) :
            d \in Range(get_model_nodes(manifest_data))
                  \cup Range(get_source_nodes(manifest_data))}

\* C6: the lookup table a check matches against has the keys the manifest
\* generates, whatever the database and schema substitution maps are.
C6_LookupIgnoresSubstitutions ==
    referenceable_tables.built => DOMAIN referenceable_tables.tables = ManifestKeys

\* C6 witness: a lookup table was built by a checker whose schema map has a key
\* that is the schema of a catalog key, and whose extracted reference it rewrote.
C6_Witness ==
    /\ referenceable_tables.built
    /\ \E k \in ManifestKeys :
          _apply_substitutions_to_reference(TableChecker, k) # k
    /\ \E r \in TableResults :
          r.sql_parsed /\ r.table_references # {LowerDotted(t) : t \in BaseTables(TreeOf(r))}

\* C9: every string in a result's table_references is entirely lower-case, for
\* every SQL text and every pair of substitution maps.
C9_ReferencesLowerCase ==
    \A r \in TableResults : \A ref \in r.table_references : ref = Lower(ref)

(***************************************************************************)
(* SpecFn: one invocation of a helper of the table checker or of the       *)
(* manifest, on an input drawn from a bounded set.  The checker is the     *)
(* state's: its maps are drawn with the input.                             *)
(***************************************************************************)
Pending(fn, arg) == [fn |-> fn, arg |-> arg, done |-> FALSE, ret |-> <<>>]

\* Table nodes: bare, schema-qualified and fully qualified names in either
\* case, and a node that has no name at all
FnTables ==
    {Table(<<>>, <<>>, n) : n \in {<<"a">>, <<"A">>, <<"b">>}}
    \cup {Table(<<>>, d, n) : d \in {<<"a">>, <<"A">>}, n \in {<<"a">>, <<"b">>}}
    \cup {Table(c, <<"a">>, <<"b">>) : c \in {<<"a">>, <<"A">>}}
    \cup {Table(<<>>, <<>>, <<>>)}

\* WITH clauses: none, one CTE (its alias in either case, or empty) whose body
\* reads nothing or reads B, or two CTEs the second of which reads the first
FnCtes ==
    {<<>>}
    \cup {<<CTE(alias, Select(<<Column(<<"x">>)>>, tables))>> :
            alias \in {<<>>, <<"a">>, <<"A">>, <<"b">>},
            tables \in {<<>>, <<Table(<<>>, <<>>, <<"B">>)>>}}
    \cup {<<CTE(<<"a">>, Select(<<Column(<<"x">>)>>, <<Table(<<>>, <<"a">>, <<"a">>)>>)),
            CTE(<<"B">>, Select(<<Column(<<"x">>)>>, <<Table(<<>>, <<>>, <<"A">>)>>))>>}

FnTrees ==
    {Tree("Select", ctes, <<Select(<<Column(<<"x">>)>>, SetToSeq(tables))>>) :
        ctes \in FnCtes, tables \in SubsetsUpTo(FnTables, MaxTables)}

\* references of one to four segments, and the empty string
FnRefs ==
    LET segs == {<<"a">>, <<"b">>}
    IN  segs
        \cup {Dotted2(x, y) : x \in segs, y \in segs}
        \cup {Dotted3(x, y, z) : x \in segs, y \in segs, z \in segs}
        \cup {Dotted2(<<"a">>, Dotted3(<<"b">>, <<"a">>, <<"b">>)), <<>>}

\* maps whose replacement may be a key ("b", "A") or hold a dot ("a.b")
FnMaps == SubstMaps({<<"a">>, <<"b">>, <<"A">>}, {<<"b">>, <<"A">>, <<"a", ".", "b">>})

FnNames == {<<>>, <<"a">>, <<"A">>, <<"b">>}

\* projected expressions: columns, an alias over a CTE's column, a call with
\* no name, a call with a name, a star and a qualified star
FnExpressions ==
    {Column(<<"x">>), Column(<<"c">>), Alias(<<"y">>, <<"c">>), Other(<<>>),
     Other(<<"f">>), Other(<<"*">>), Column(<<"*">>)}

\* trees for _extract_columns_from_sql: WITH one or two CTEs, projecting c and
\* an alias k, or no WITH clause; then a SELECT, a UNION of two, or a statement
\* that holds no SELECT
FnColumnTrees ==
    LET withs == {<<>>,
                  <<CTE(<<"a">>, Select(<<Column(<<"c">>)>>, <<Table(<<>>, <<>>, <<"b">>)>>))>>,
                  <<CTE(<<"a">>, Select(<<Column(<<"c">>), Alias(<<"k">>, <<"x">>)>>,
                                        <<Table(<<>>, <<>>, <<"b">>)>>)),
                    CTE(<<"b">>, Select(<<Column(<<"z">>)>>, <<Table(<<>>, <<>>, <<"a">>)>>))>>}
        from == <<Table(<<>>, <<>>, <<"a">>)>>
    IN  {Tree("Select", ctes, <<Select(SetToSeq(es), from)>>) :
            ctes \in withs, es \in SUBSET FnExpressions}
        \cup {Tree("Union", ctes, <<Select(SetToSeq(es), from),
                                    Select(<<Column(<<"z">>)>>, from)>>) :
                ctes \in withs, es \in SUBSET FnExpressions}
        \cup {Tree("Command", <<>>, <<>>)}

\* the nodes of a manifest whose models have a patch_path: a model patched
\* from its package, a model whose patch_path has no prefix or that has no
\* patch_path, a model no list names, and a test
FnPatchedManifests ==
    {[nodes |->
        << [unique_id |-> ModelId1, original_file_path |-> <<"m1", ".sql">>,
            patch_path |-> <<"pkg", "://", "m1", ".yml">>],
           [unique_id |-> ModelId2, original_file_path |-> <<"m2", ".sql">>,
            patch_path |-> patch2],
           [unique_id |-> <<"model", "m3">>, original_file_path |-> <<"m3", ".sql">>,
            patch_path |-> <<"pkg", "://", "s", ".yml">>],
           [unique_id |-> TestId, original_file_path |-> <<"t1", ".sql">>,
            patch_path |-> None] >>] :
     patch2 \in {None, <<"m2", ".yml">>}}

\* the lines of a restriction list
FnRestrictFiles ==
    {<<"m1", ".sql">>, <<"m1", ".yml">>, <<"pkg", "://", "m1", ".yml">>,
     <<"m2", ".yml">>, <<"t1", ".sql">>, <<"o", ".sql">>}

InitFn ==
    /\ manifest_data = CHOOSE m \in Manifests : TRUE
    /\ sql_files = <<>>
    /\ referenceable_tables = [built |-> FALSE, tables |-> <<>>]
    /\ column_results = [id \in ModelIds |-> NoResult]
    /\ table_results = [id \in ModelIds |-> NoResult]
    /\ run = IdleRun
    /\ \/ /\ database_substitutions \in DatabaseMaps
          /\ schema_substitutions \in SchemaMaps
          /\ call \in {Pending("_extract_table_references", t) : t \in FnTrees}
       \/ /\ database_substitutions \in FnMaps
          /\ schema_substitutions \in FnMaps
          /\ call \in {Pending("_apply_substitutions_to_reference", r) : r \in FnRefs}
       \/ /\ database_substitutions = <<>>
          /\ schema_substitutions = <<>>
          /\ call \in {Pending("_generate_table_references",
                               [name |-> n, schema |-> sc, database |-> d]) :
                          n \in FnNames, sc \in FnNames, d \in FnNames}
       \/ /\ database_substitutions = <<>>
          /\ schema_substitutions = <<>>
          /\ call \in {Pending("_extract_columns_from_sql", t) : t \in FnColumnTrees}
       \/ /\ database_substitutions = <<>>
          /\ schema_substitutions = <<>>
          /\ call \in {Pending("get_model_nodes", [manifest |-> m, restrict_to_files |-> f]) :
                          m \in FnPatchedManifests, f \in (SUBSET FnRestrictFiles) \ {{}}}

Return(value) ==
    /\ ~call.done
    /\ call' = [call EXCEPT !.done = TRUE, !.ret = value]
    /\ UNCHANGED <<manifest_data, sql_files, database_substitutions, schema_substitutions,
                   referenceable_tables, column_results, table_results, run>>

ExtractTableReferences ==
    /\ call.fn = "_extract_table_references"
    /\ Return(_extract_table_references(TableChecker, call.arg))

ApplySubstitutionsToReference ==
    /\ call.fn = "_apply_substitutions_to_reference"
    /\ Return(_apply_substitutions_to_reference(TableChecker, call.arg))

GenerateTableReferences ==
    /\ call.fn = "_generate_table_references"
    /\ Return(_generate_table_references(call.arg.name, call.arg.schema, call.arg.database))

ExtractColumnsFromSql ==
    /\ call.fn = "_extract_columns_from_sql"
    /\ Return(_extract_columns_from_sql(call.arg))

GetModelNodes ==
    /\ call.fn = "get_model_nodes"
    /\ Return(get_model_nodes_restricted(call.arg.manifest, call.arg.restrict_to_files))

NextFn ==
    \/ ExtractTableReferences
    \/ ApplySubstitutionsToReference
    \/ GenerateTableReferences
    \/ ExtractColumnsFromSql
    \/ GetModelNodes

SpecFn == InitFn /\ [][NextFn]_vars

(***************************************************************************)
(* Properties of the helpers (checked under SpecFn).                       *)
(***************************************************************************)
Returned(fn) == call.fn = fn /\ call.done

\* C1: the set _extract_table_references returns never contains, as a bare
\* (dot-free) name, the alias of a CTE of the tree, compared without case,
\* even when the manifest holds a table of that name.
C1_NoBareCteAlias ==
    Returned("_extract_table_references") =>
        \A c \in Range(FindAllCTE(call.arg)) : \A ref \in call.ret :
            ~HasDot(ref) => Lower(ref) # Lower(c.alias)

\* C1 witness: the tree reads a bare name that is a CTE alias in another case
\* and a key of the manifest's lookup table, and the extraction returned other
\* references.
C1_Witness ==
    /\ Returned("_extract_table_references")
    /\ \E c \in Range(FindAllCTE(call.arg)) : \E t \in FindAllTable(call.arg) :
          /\ TableParts(t) = <<t.name>>
          /\ t.name # c.alias
          /\ Lower(t.name) = Lower(c.alias)
          /\ Lower(t.name) \in DOMAIN get_all_referenceable_tables(manifest_data)
    /\ call.ret # {}

\* what a map does to one segment
Replaced(map, segment) == IF segment \in DOMAIN map THEN map[segment] ELSE segment

ScenarioDChecker ==
    [manifest |-> manifest_data,
     database_substitutions |-> (RAWDB :> PRODDB),
     schema_substitutions |-> (RAW :> PRODRAW)]

\* C7: on a reference of three segments the first is replaced through the
\* database map and the second through the schema map, on one of two segments
\* the first is replaced through the schema map, one segment is returned as it
\* is, and a segment that is no key stays; raw_db.raw.users with raw_db ->
\* prod_db and raw -> prod_raw becomes prod_db.prod_raw.users.
C7_SubstitutionBySegment ==
    /\ Returned("_apply_substitutions_to_reference") =>
         LET parts == Split(call.arg)
         IN  /\ Len(parts) = 3 =>
                  call.ret = Dotted3(Replaced(database_substitutions, parts[1]),
                                     Replaced(schema_substitutions, parts[2]), parts[3])
             /\ Len(parts) = 2 =>
                  call.ret = Dotted2(Replaced(schema_substitutions, parts[1]), parts[2])
             /\ Len(parts) = 1 => call.ret = call.arg
    /\ _apply_substitutions_to_reference(ScenarioDChecker, RAWDB_RAW_USERS)
         = PRODDB_PRODRAW_USERS

\* C7 witness: a three-segment reference whose first segment is a key of both
\* maps, with different replacements, and whose second is a key of neither.
C7_Witness ==
    /\ Returned("_apply_substitutions_to_reference")
    /\ Len(Split(call.arg)) = 3
    /\ Split(call.arg)[1] \in DOMAIN database_substitutions \cap DOMAIN schema_substitutions
    /\ database_substitutions[Split(call.arg)[1]] # schema_substitutions[Split(call.arg)[1]]
    /\ Split(call.arg)[2] \notin DOMAIN database_substitutions \cup DOMAIN schema_substitutions
    /\ call.ret # call.arg

\* no key of the map is among its replacement values
NoKeyAmongValues(map) == \A k \in DOMAIN map : \A j \in DOMAIN map : map[j] # k

\* no replacement value of the map holds a dot
NoDotInValues(map) == \A k \in DOMAIN map : ~HasDot(map[k])

\* the second half of C8: with the schema map {a -> b, b -> A}, whose
\* replacement b is a key, the second application changes a.a, which the first
\* made b.a, into A.a
SecondApplicationCanChange ==
    LET m == (<<"a">> :> <<"b">>) @@ (<<"b">> :> <<"A">>)
        self == [manifest |-> manifest_data, database_substitutions |-> <<>>,
                 schema_substitutions |-> m]
        once == _apply_substitutions_to_reference(self, <<"a", ".", "a">>)
    IN  /\ ~NoKeyAmongValues(m)
        /\ once = <<"b", ".", "a">>
        /\ _apply_substitutions_to_reference(self, once) = <<"A", ".", "a">>

\* C8 as stated: with maps none of whose keys is among its own replacement
\* values, applying the substitution twice gives what applying it once gives;
\* with a replacement that is a key a second application can change the result.
C8_IdempotentWithoutKeyValues ==
    /\ (Returned("_apply_substitutions_to_reference")
        /\ NoKeyAmongValues(database_substitutions)
        /\ NoKeyAmongValues(schema_substitutions))
       => _apply_substitutions_to_reference(TableChecker, call.ret) = call.ret
    /\ SecondApplicationCanChange

\* C8 amended: the same, for maps in which moreover no replacement value holds
\* a dot (a dotted replacement adds a segment, and the second application then
\* reads the segments at other positions).
C8_IdempotentWithoutKeyOrDottedValues ==
    /\ (Returned("_apply_substitutions_to_reference")
        /\ NoKeyAmongValues(database_substitutions)
        /\ NoKeyAmongValues(schema_substitutions)
        /\ NoDotInValues(database_substitutions)
        /\ NoDotInValues(schema_substitutions))
       => _apply_substitutions_to_reference(TableChecker, call.ret) = call.ret
    /\ SecondApplicationCanChange

\* C8 witness: both maps replaced a segment of a three-segment reference, no
\* key is a replacement value and no value holds a dot.
C8_Witness ==
    /\ Returned("_apply_substitutions_to_reference")
    /\ NoKeyAmongValues(database_substitutions) /\ NoDotInValues(database_substitutions)
    /\ NoKeyAmongValues(schema_substitutions) /\ NoDotInValues(schema_substitutions)
    /\ Len(Split(call.arg)) = 3
    /\ Split(call.arg)[1] \in DOMAIN database_substitutions
    /\ Split(call.arg)[2] \in DOMAIN schema_substitutions
    /\ Split(call.ret)[1] # Split(call.arg)[1]
    /\ Split(call.ret)[2] # Split(call.arg)[2]

\* Scenario E: one model, database=analytics, schema=public, name=users
ScenarioEManifest ==
    [nodes |-> << [unique_id |-> ModelId1, name |-> USERS, schema |-> PUBLIC,
                   database |-> ANALYTICS, original_file_path |-> Path1,
                   columns |-> {}] >>,
     sources |-> <<>>]

\* C10: for a descriptor the lookup table holds the lower-cased name when name
\* is not empty, schema.name when schema and name are not, database.schema.name
\* when none of the three is, and no other key; a model analytics/public/users
\* is matched by users, public.users and analytics.public.users.
C10_GeneratedKeys ==
    /\ Returned("_generate_table_references") =>
         LET n == call.arg.name
             sc == call.arg.schema
             d == call.arg.database
         IN  Range(call.ret) =
                (IF n # <<>> THEN {Lower(n)} ELSE {})
                \cup (IF sc # <<>> /\ n # <<>> THEN {Dotted2(Lower(sc), Lower(n))} ELSE {})
                \cup (IF d # <<>> /\ sc # <<>> /\ n # <<>>
                      THEN {Dotted3(Lower(d), Lower(sc), Lower(n))} ELSE {})
    /\ LET refs == {USERS, Dotted2(PUBLIC, USERS), Dotted3(ANALYTICS, PUBLIC, USERS)}
       IN  /\ ValidRefs(refs, get_all_referenceable_tables(ScenarioEManifest)) = refs
           /\ DOMAIN get_all_referenceable_tables(ScenarioEManifest) = refs

\* C10 witness: a descriptor with the three fields, two of them not lower-case,
\* gave three keys.
C10_Witness ==
    /\ Returned("_generate_table_references")
    /\ call.arg.name # Lower(call.arg.name)
    /\ call.arg.database # Lower(call.arg.database)
    /\ call.arg.schema # <<>>
    /\ Len(call.ret) = 3

(***************************************************************************)
(* Matching and extraction (C11 under Spec, C12 and C13 under SpecFn).     *)
(***************************************************************************)
\* the table name of a dotted reference: its last segment
LastSegment(ref) == Split(ref)[Len(Split(ref))]

\* C11: in a result that reached table checking, a substituted reference is in
\* valid_references iff the exact string is a key of the manifest's lookup
\* table; a reference of which only the table name is a key is in
\* invalid_references.
C11_ValidIffExactKey ==
    \A r \in TableResults :
        r.sql_parsed =>
            \A ref \in r.table_references :
                /\ ref \in r.valid_references
                     <=> ref \in DOMAIN get_all_referenceable_tables(manifest_data)
                /\ (ref \notin ManifestKeys /\ LastSegment(ref) \in ManifestKeys)
                     => ref \in r.invalid_references

\* C11 witness: one result holds a valid reference and an invalid one whose
\* table name alone is a key of the lookup table.
C11_Witness ==
    \E r \in TableResults :
        /\ r.sql_parsed
        /\ r.valid_references # {}
        /\ \E ref \in r.invalid_references :
              HasDot(ref) /\ ref \notin ManifestKeys /\ LastSegment(ref) \in ManifestKeys

\* C12: a Table node with a schema or catalog qualifier is kept in the
\* extracted set even when its name is a CTE alias of the tree; what the
\* CTE rule drops is dot-free.
C12_QualifiedKept ==
    Returned("_extract_table_references") =>
        \A t \in FindAllTable(call.arg) :
            LET n == _normalize_table_reference(TableChecker, t)
            IN  /\ Len(TableParts(t)) >= 2 => n \in call.ret
                /\ (n # None /\ n \notin call.ret) => ~HasDot(n)

\* C12 witness: the tree reads a qualified table and a bare one, both named as
\* a CTE of the tree; the first was kept and the second dropped.
C12_Witness ==
    /\ Returned("_extract_table_references")
    /\ \E c \in Range(FindAllCTE(call.arg)) : \E t, u \in FindAllTable(call.arg) :
          /\ Len(TableParts(t)) >= 2
          /\ Lower(t.name) = Lower(c.alias)
          /\ _normalize_table_reference(TableChecker, t) \in call.ret
          /\ TableParts(u) = <<u.name>>
          /\ Lower(u.name) = Lower(c.alias)
          /\ _normalize_table_reference(TableChecker, u) \notin call.ret

\* Scenario C: WITH a AS (SELECT x FROM t1), b AS (SELECT y FROM t2)
\*             SELECT x, y FROM a JOIN b
ScenarioCTree ==
    Tree("Select",
         <<CTE(<<"a">>, Select(<<Column(<<"x">>)>>, <<Table(<<>>, <<>>, <<"t", "1">>)>>)),
           CTE(<<"b">>, Select(<<Column(<<"y">>)>>, <<Table(<<>>, <<>>, <<"t", "2">>)>>))>>,
         <<Select(<<Column(<<"x">>), Column(<<"y">>)>>,
                  <<Table(<<>>, <<>>, <<"a">>), Table(<<>>, <<>>, <<"b">>)>>)>>)

NoSubstitutionChecker ==
    [manifest |-> manifest_data, database_substitutions |-> <<>>,
     schema_substitutions |-> <<>>]

\* C13: every Table node of the tree, in a CTE body as in the outer query and
\* its joins, gives its normalized string to the extracted set unless it is a
\* bare CTE alias; Scenario C yields exactly {t1, t2}.
C13_WholeTreeExtracted ==
    /\ Returned("_extract_table_references") =>
         LET cte_names == {Lower(c.alias) : c \in {x \in Range(call.arg.ctes) : x.alias # <<>>}}
             nodes == UNION ({Range(c.body.tables) : c \in Range(call.arg.ctes)}
                             \cup {Range(b.tables) : b \in Range(call.arg.branches)})
             names == {_normalize_table_reference(TableChecker, t) : t \in nodes}
         IN  call.ret = {n \in names : n # None /\ ~(~HasDot(n) /\ Lower(n) \in cte_names)}
    /\ _extract_table_references(NoSubstitutionChecker, ScenarioCTree)
         = {<<"t", "1">>, <<"t", "2">>}

\* C13 witness: a table read only inside a CTE body is in the extracted set,
\* and a bare reference to a CTE is not.
C13_Witness ==
    /\ Returned("_extract_table_references")
    /\ \E c \in Range(call.arg.ctes) : \E t \in Range(c.body.tables) :
          /\ \A b \in Range(call.arg.branches) : t \notin Range(b.tables)
          /\ _normalize_table_reference(TableChecker, t) \in call.ret
    /\ \E c \in Range(call.arg.ctes) : \E b \in Range(call.arg.branches) :
          \E u \in Range(b.tables) :
             TableParts(u) = <<u.name>> /\ Lower(u.name) = Lower(c.alias)

(***************************************************************************)
(* Missing and unparseable files (C14 and C15 under Spec).                 *)
(***************************************************************************)
\* the models that declare a path whose compiled SQL file is not on disk
MissingFileModels ==
    {id \in ModelIds :
        /\ Truthy(get_model_original_file_path(manifest_data, id))
        /\ _get_sql_file_path(get_model_original_file_path(manifest_data, id))
             \notin DOMAIN sql_files}

\* C14: when the compiled SQL file of a model does not exist, the result of
\* check_model_columns and that of check_model_table_references have
\* sql_file_exists false, sql_parsed false, exactly one error, every extracted
\* set empty and every validity flag false.
C14_MissingFileResult ==
    \A id \in MissingFileModels :
        /\ column_results[id] # NoResult =>
             LET r == column_results[id]
             IN  /\ ~r.sql_file_exists /\ ~r.sql_parsed
                 /\ Len(r.errors) = 1
                 /\ r.errors[1].msg = "SQL file not found"
                 /\ r.sql_columns = {} /\ r.missing_in_sql = {} /\ r.extra_in_sql = {}
                 /\ ~r.columns_match
        /\ table_results[id] # NoResult =>
             LET r == table_results[id]
             IN  /\ ~r.sql_file_exists /\ ~r.sql_parsed
                 /\ Len(r.errors) = 1
                 /\ r.errors[1].msg = "SQL file not found"
                 /\ r.table_references = {} /\ r.valid_references = {}
                 /\ r.invalid_references = {}
                 /\ ~r.references_valid

\* C14 witness: both checkers have returned for a model whose file is missing
\* and whose manifest entry declares columns, while another model's file parsed.
C14_Witness ==
    /\ \E id \in MissingFileModels :
          /\ column_results[id] # NoResult
          /\ table_results[id] # NoResult
          /\ column_results[id].manifest_columns # {}
    /\ \E r \in ColumnResults : r.sql_parsed

\* the models whose compiled SQL file is on disk and cannot be parsed
UnparseableFileModels ==
    {id \in ModelIds :
        /\ Truthy(get_model_original_file_path(manifest_data, id))
        /\ LET p == _get_sql_file_path(get_model_original_file_path(manifest_data, id))
           IN  p \in DOMAIN sql_files /\ sql_files[p].type = "Garbage"}

\* C15: when the SQL file exists and parsing it fails, the result of either
\* checker has sql_file_exists true, sql_parsed false, exactly one error, which
\* names the file, and empty extraction fields.
C15_ParseFailureNamesFile ==
    \A id \in UnparseableFileModels :
        /\ column_results[id] # NoResult =>
             LET r == column_results[id]
             IN  /\ r.sql_file_exists /\ ~r.sql_parsed
                 /\ Len(r.errors) = 1
                 /\ r.errors[1].arg = r.sql_file_path
                 /\ r.sql_columns = {} /\ r.missing_in_sql = {} /\ r.extra_in_sql = {}
        /\ table_results[id] # NoResult =>
             LET r == table_results[id]
             IN  /\ r.sql_file_exists /\ ~r.sql_parsed
                 /\ Len(r.errors) = 1
                 /\ r.errors[1].arg = r.sql_file_path
                 /\ r.table_references = {} /\ r.valid_references = {}
                 /\ r.invalid_references = {}

(***************************************************************************)
(* Independence of the checks and the column comparison (C18, C19, Spec).  *)
(***************************************************************************)
\* the compiled SQL file of a model of the generated manifests
ModelFile(id) == IF id = ModelId1 THEN <<"m1", ".sql">> ELSE <<"m2", ".sql">>

\* what a directory holds at a path: nothing, or the content
FileAt(files, p) == IF p \in DOMAIN files THEN <<files[p]>> ELSE <<>>

\* the directories that hold at the model's path what sql_files holds there,
\* and anything at the other paths
OtherFilesChanged(id) ==
    {g \in FileSystems : FileAt(g, ModelFile(id)) = FileAt(sql_files, ModelFile(id))}

\* a returned result is the one the check gives in every directory that
\* differs from sql_files in other models' files only
ResultsIgnoreOtherFiles ==
    \A id \in ModelIds : \A g \in OtherFilesChanged(id) :
        /\ column_results[id] # NoResult =>
             column_results[id] = check_model_columns(ColumnChecker, id, g)
        /\ table_results[id] # NoResult =>
             table_results[id] = check_model_table_references(TableChecker, id, g)

\* C18: the result of checking one model is unchanged by changing the
\* existence or content of any other model's SQL file, and no check modifies
\* the manifest data.
C18_ChecksIndependent ==
    /\ []ResultsIgnoreOtherFiles
    /\ [][manifest_data' = manifest_data]_vars

\* C18 witness: both checkers have returned for a model whose file parsed while
\* the other model's file is on disk and unparseable.
C18_Witness ==
    \E id \in ModelIds : \E other \in ModelIds \ {id} :
        /\ column_results[id] # NoResult /\ column_results[id].sql_parsed
        /\ table_results[id] # NoResult /\ table_results[id].sql_parsed
        /\ FileAt(sql_files, ModelFile(other)) = <<Garbage>>
        /\ Cardinality(OtherFilesChanged(id)) > 1

\* Scenarios A and B: model users declares id, name, email
ScenarioAManifest ==
    [nodes |-> << [unique_id |-> ModelId1, name |-> USERS, schema |-> <<>>,
                   database |-> <<>>, original_file_path |-> Path1,
                   columns |-> {<<"i", "d">>, <<"n", "a", "m", "e">>,
                                <<"e", "m", "a", "i", "l">>}] >>,
     sources |-> <<>>]

\* SELECT <names> FROM raw_users, compiled for the model
ScenarioFile(names) ==
    (_get_sql_file_path(Path1) :>
        Tree("Select", <<>>,
             <<Select([i \in DOMAIN names |-> Column(names[i])],
                      <<Table(<<>>, <<>>, <<"r", "a", "w", "_", "u", "s", "e", "r", "s">>)>>)>>))

ScenarioAResult ==
    check_model_columns([manifest |-> ScenarioAManifest], ModelId1,
        ScenarioFile(<< <<"i", "d">>, <<"n", "a", "m", "e">>, <<"e", "m", "a", "i", "l">> >>))

ScenarioBResult ==
    check_model_columns([manifest |-> ScenarioAManifest], ModelId1,
        ScenarioFile(<< <<"i", "d">>, <<"n", "a", "m", "e">> >>))

\* C19: for a model whose SQL parsed, missing_in_sql is the declared columns
\* minus the extracted ones and extra_in_sql the extracted minus the declared;
\* SQL projecting exactly the declared columns gives columns_match with both
\* sets empty (Scenario A), and SQL omitting a declared column gives
\* columns_match false with that column in missing_in_sql (Scenario B).
C19_MissingAndExtra ==
    /\ \A r \in ColumnResults :
          r.sql_parsed =>
            /\ r.manifest_columns = get_model_columns(manifest_data, r.node_id)
            /\ r.missing_in_sql = r.manifest_columns \ r.sql_columns
            /\ r.extra_in_sql = r.sql_columns \ r.manifest_columns
            /\ r.sql_columns = r.manifest_columns =>
                 (r.columns_match /\ r.missing_in_sql = {} /\ r.extra_in_sql = {})
            /\ \A c \in r.manifest_columns \ r.sql_columns :
                 ~r.columns_match /\ c \in r.missing_in_sql
    /\ ScenarioAResult.columns_match
    /\ ScenarioAResult.missing_in_sql = {} /\ ScenarioAResult.extra_in_sql = {}
    /\ ~ScenarioBResult.columns_match
    /\ ScenarioBResult.missing_in_sql = {<<"e", "m", "a", "i", "l">>}

\* C19 witness: the SQL of one model omits declared columns and adds another,
\* and the SQL of another model projects its declared column and one more.
C19_Witness ==
    /\ \E r \in ColumnResults :
          /\ r.sql_parsed /\ ~r.columns_match
          /\ r.missing_in_sql # {} /\ r.extra_in_sql # {}
          /\ r.missing_in_sql = r.manifest_columns
    /\ \E r \in ColumnResults :
          /\ r.sql_parsed /\ ~r.columns_match
          /\ r.missing_in_sql = {} /\ r.extra_in_sql # {}
          /\ r.manifest_columns \subseteq r.sql_columns

(***************************************************************************)
(* Column extraction (C20 under SpecFn).                                   *)
(***************************************************************************)
\* the names a projection list gives
ProjectedNames(select) == {ColumnName(e) : e \in Range(select.expressions)} \ {None}

\* the names the CTE bodies of a tree project
CteProjectedNames(parsed_sql) ==
    UNION {ProjectedNames(c.body) : c \in Range(parsed_sql.ctes)}

\* C20: for a tree with CTEs and a final query, _extract_columns_from_sql
\* returns the names of the final query's own projection list; a name
\* projected only inside a CTE body is not in the result.
C20_FinalProjectionOnly ==
    (Returned("_extract_columns_from_sql") /\ call.arg.ctes # <<>>) =>
        LET own == ProjectedNames(call.arg.branches[1])
        IN  /\ call.ret = own
            /\ \A n \in CteProjectedNames(call.arg) \ own : n \notin call.ret

\* C20 witness: two CTEs project names the final query does not, and the final
\* query projects a column and an alias.
C20_Witness ==
    /\ Returned("_extract_columns_from_sql")
    /\ Len(call.arg.ctes) = 2
    /\ Cardinality(CteProjectedNames(call.arg) \ call.ret) >= 2
    /\ \E e \in Range(call.arg.branches[1].expressions) : e.type = "Alias"
    /\ Cardinality(call.ret) >= 2

(***************************************************************************)
(* SpecRun: main's two loops, column_checker.check_all_models() and then,  *)
(* when table checking is enabled, table_checker.check_all_models(), taken *)
(* one step of a check at a time.  run.phase is how far the check of model *)
(* run.index has got; run.result is the result dict as written so far.     *)
(***************************************************************************)
\* the result dict as check_model_columns first builds it
NewColumnResult(self, node_id) ==
    [node_id |-> node_id,
     original_file_path |-> get_model_original_file_path(self.manifest, node_id),
     sql_file_exists |-> FALSE,
     sql_parsed |-> FALSE,
     manifest_columns |-> get_model_columns(self.manifest, node_id),
     sql_columns |-> {},
     columns_match |-> FALSE,
     missing_in_sql |-> {},
     extra_in_sql |-> {},
     errors |-> <<>>,
     sql_file_path |-> None]

\* the result dict as check_model_table_references first builds it
NewTableResult(self, node_id) ==
    [node_id |-> node_id,
     original_file_path |-> get_model_original_file_path(self.manifest, node_id),
     sql_file_exists |-> FALSE,
     sql_parsed |-> FALSE,
     table_references |-> {},
     valid_references |-> {},
     invalid_references |-> {},
     references_valid |-> FALSE,
     errors |-> <<>>,
     sql_file_path |-> None]

\* where a step leaves the check
Outcome(phase, result) == [phase |-> phase, result |-> result]

\* a mutant of FileCheckStep: a missing file ends the check with no error
FileCheckStep_silent(result, files) ==
    IF ~Truthy(result.original_file_path)
    THEN Outcome("done", result)
    ELSE LET sql_file_path == _get_sql_file_path(result.original_file_path)
         IN  IF ~Exists(files, sql_file_path)
             THEN Outcome("done", [result EXCEPT !.sql_file_path = sql_file_path])
             ELSE Outcome("file_checked", [result EXCEPT !.sql_file_path = sql_file_path,
                                                         !.sql_file_exists = TRUE])

\* the declared path and the file are looked for: a missing one ends the check
FileCheckStep(result, files) ==
    IF ~Truthy(result.original_file_path)
    THEN Outcome("done",
                 [result EXCEPT !.errors =
                     Append(@, Error("No original_file_path found in manifest", None))])
    ELSE LET sql_file_path == _get_sql_file_path(result.original_file_path)
         IN  IF ~Exists(files, sql_file_path)
             THEN Outcome("done",
                          [result EXCEPT !.sql_file_path = sql_file_path,
                                         !.errors = Append(@, Error("SQL file not found",
                                                                    sql_file_path))])
             ELSE Outcome("file_checked", [result EXCEPT !.sql_file_path = sql_file_path,
                                                         !.sql_file_exists = TRUE])

\* the file is read and parsed: a failure ends the check
ParseStep(checker, result, files) ==
    IF checker = "column"
    THEN IF _parse_sql_file(files, result.sql_file_path) = NoneNode
         THEN Outcome("done",
                      [result EXCEPT !.errors = Append(@, Error("Failed to parse SQL file",
                                                                result.sql_file_path))])
         ELSE Outcome("parsed", [result EXCEPT !.sql_parsed = TRUE])
    ELSE IF ParseRaises(files[result.sql_file_path])
         THEN Outcome("done",
                      [result EXCEPT !.errors = Append(@, Error("Error processing SQL file",
                                                                ParseErrorText))])
         ELSE Outcome("parsed", [result EXCEPT !.sql_parsed = TRUE])

\* the columns are extracted and compared
ColumnStep(result, files) ==
    LET sql_columns == _extract_columns_from_sql(files[result.sql_file_path])
        missing_in_sql == MissingInSql(result.manifest_columns, sql_columns)
        extra_in_sql == ExtraInSql(result.manifest_columns, sql_columns)
    IN  Outcome("columns_extracted",
                [result EXCEPT !.sql_columns = sql_columns,
                               !.missing_in_sql = missing_in_sql,
                               !.extra_in_sql = extra_in_sql,
                               !.columns_match = ColumnsMatch(missing_in_sql, extra_in_sql)])

\* the table references are extracted, substituted and matched
TableStep(self, result, files) ==
    LET raw_table_references == _extract_table_references(self, files[result.sql_file_path])
        table_references == _apply_table_reference_substitutions(self, raw_table_references)
        lookup == LookupForMatching(self)
        invalid_refs == InvalidRefs(table_references, lookup)
    IN  Outcome("table_checked",
                [result EXCEPT !.table_references = table_references,
                               !.valid_references = ValidRefs(table_references, lookup),
                               !.invalid_references = invalid_refs,
                               !.references_valid = (Cardinality(invalid_refs) = 0)])

\* a mutant of NextModel: the loop ends at the first model that has an error
NextModel_stop_at_failure(index, result, model_nodes) ==
    IF result.errors = <<>> THEN index + 1 ELSE Len(model_nodes) + 1

\* for node_id in model_nodes: the position after the model at index
NextModel(index, result, model_nodes) == index + 1

\* model_nodes = self.manifest.get_model_nodes()
RunModels == get_model_nodes(manifest_data)

\* the loop of `checker` reaches position index: the check of that model is
\* about to build its result, or the loop is over
EnterLoop(r, checker, index) ==
    IF index <= Len(RunModels)
    THEN [r EXCEPT !.checker = checker, !.index = index, !.phase = "not_started",
                   !.result = IF checker = "column"
                              THEN NewColumnResult(ColumnChecker, RunModels[index].unique_id)
                              ELSE NewTableResult(TableChecker, RunModels[index].unique_id)]
    ELSE IF checker = "column" /\ r.check_tables /\ Len(RunModels) > 0
    THEN [r EXCEPT !.checker = "table", !.index = 1, !.phase = "not_started",
                   !.result = NewTableResult(TableChecker, RunModels[1].unique_id)]
    ELSE [r EXCEPT !.checker = "finished", !.index = 1, !.phase = "done",
                   !.result = NoResult]

\* the directories of a run: a file is missing, unparseable, or a tree; of the
\* first model's trees, those with a WITH clause and the most tables
RunFileSystems ==
    {g \in FileSystems :
        \A p \in DOMAIN g :
            (g[p] # Garbage /\ g[p] # FileTree2) =>
                (g[p].ctes # <<>> /\ Len(g[p].branches[1].tables) = MaxTables)}

\* the manifests of a run: those of Manifests, and the same with the first
\* model lacking original_file_path
RunManifests ==
    Manifests
    \cup {[m EXCEPT !.nodes[1].original_file_path = None] : m \in Manifests}

InitRun ==
    /\ manifest_data \in RunManifests
    /\ sql_files \in RunFileSystems
    /\ database_substitutions \in DatabaseMaps
    /\ schema_substitutions = <<>>
    /\ referenceable_tables = [built |-> FALSE, tables |-> <<>>]
    /\ column_results = [id \in ModelIds |-> NoResult]
    /\ table_results = [id \in ModelIds |-> NoResult]
    /\ call = IdleCall
    /\ \E check_tables \in BOOLEAN :
          run = EnterLoop([IdleRun EXCEPT !.check_tables = check_tables], "column", 1)

Running == run.checker \in {"column", "table"}

Step(outcome) ==
    /\ run' = [run EXCEPT !.phase = outcome.phase, !.result = outcome.result]
    /\ UNCHANGED <<manifest_data, sql_files, database_substitutions, schema_substitutions,
                   referenceable_tables, column_results, table_results, call>>

FileCheck ==
    /\ Running /\ run.phase = "not_started"
    /\ Step(FileCheckStep(run.result, sql_files))

Parse ==
    /\ Running /\ run.phase = "file_checked"
    /\ Step(ParseStep(run.checker, run.result, sql_files))

ExtractColumns ==
    /\ run.checker = "column" /\ run.phase = "parsed"
    /\ Step(ColumnStep(run.result, sql_files))

CheckTables ==
    /\ run.checker = "table" /\ run.phase = "parsed"
    /\ Step(TableStep(TableChecker, run.result, sql_files))

\* return result
ReturnResult ==
    /\ Running /\ run.phase \in {"columns_extracted", "table_checked"}
    /\ Step(Outcome("done", run.result))

\* results.append(result), and the loop goes on
AppendResult ==
    /\ Running /\ run.phase = "done"
    /\ LET appended == IF run.checker = "column"
                       THEN [run EXCEPT !.column_results = Append(@, run.result)]
                       ELSE [run EXCEPT !.table_results = Append(@, run.result)]
       IN  run' = EnterLoop(appended, run.checker,
                            NextModel(run.index, run.result, RunModels))
    /\ UNCHANGED <<manifest_data, sql_files, database_substitutions, schema_substitutions,
                   referenceable_tables, column_results, table_results, call>>

NextRun ==
    \/ FileCheck
    \/ Parse
    \/ ExtractColumns
    \/ CheckTables
    \/ ReturnResult
    \/ AppendResult

SpecRun == InitRun /\ [][NextRun]_vars

\* the program is one thread that runs until main returns
SpecRunLive == SpecRun /\ WF_vars(NextRun)

(***************************************************************************)
(* The loops and the steps of a check (C16 and C17 under SpecRunLive).     *)
(***************************************************************************)
\* the node ids of a list of results
ResultIds(results) == [i \in DOMAIN results |-> results[i].node_id]

\* the model identifiers in the manifest's iteration order
ModelIdList == [i \in DOMAIN RunModels |-> RunModels[i].unique_id]

IsPrefix(a, b) == Len(a) <= Len(b) /\ a = SubSeq(b, 1, Len(a))

\* the results appended so far are those of the first models, in order, each
\* the result of that model's check; a finished loop has one for every model
OneResultPerModel ==
    /\ IsPrefix(ResultIds(run.column_results), ModelIdList)
    /\ IsPrefix(ResultIds(run.table_results), ModelIdList)
    /\ \A i \in DOMAIN run.column_results :
          run.column_results[i] = check_model_columns(ColumnChecker, ModelIdList[i], sql_files)
    /\ \A i \in DOMAIN run.table_results :
          run.table_results[i] =
             check_model_table_references(TableChecker, ModelIdList[i], sql_files)
    /\ run.checker = "table" => ResultIds(run.column_results) = ModelIdList
    /\ run.checker = "finished" =>
          /\ ResultIds(run.column_results) = ModelIdList
          /\ run.check_tables => ResultIds(run.table_results) = ModelIdList

\* a step appends at most one result and removes none
ResultsOnlyAppended ==
    /\ IsPrefix(run.column_results, run'.column_results)
    /\ Len(run'.column_results) <= Len(run.column_results) + 1
    /\ IsPrefix(run.table_results, run'.table_results)
    /\ Len(run'.table_results) <= Len(run.table_results) + 1

\* C16: check_all_models returns exactly one result per model identifier of
\* the manifest, in the manifest's iteration order, whatever mix of missing,
\* unparseable and valid files the models have: a failing model neither stops
\* the loop nor removes another model's result.
C16_OneResultPerModelInOrder ==
    /\ []OneResultPerModel
    /\ [][ResultsOnlyAppended]_vars
    /\ <>(run.checker = "finished")

\* C16 witness: both loops are over; the first model's checks failed and the
\* second model's file parsed.
C16_Witness ==
    /\ run.checker = "finished" /\ run.check_tables
    /\ Len(run.column_results) = 2 /\ Len(run.table_results) = 2
    /\ run.column_results[1].errors # <<>> /\ run.table_results[1].errors # <<>>
    /\ run.column_results[2].sql_parsed /\ run.table_results[2].sql_parsed

\* the position of a phase in
\* not_started, file_checked, parsed, columns_extracted, table_checked, done
PhaseRank(phase) ==
    CASE phase = "not_started" -> 0
      [] phase = "file_checked" -> 1
      [] phase = "parsed" -> 2
      [] phase = "columns_extracted" -> 3
      [] phase = "table_checked" -> 4
      [] phase = "done" -> 5

\* a step of the check in progress: it moves forward, to the next step when
\* the step before succeeded, or straight to done with the error of a failed
\* file check or parse
StepsForward ==
    (Running /\ run'.checker = run.checker /\ run'.index = run.index) =>
        /\ PhaseRank(run'.phase) > PhaseRank(run.phase)
        /\ run'.phase = "file_checked" =>
             run.phase = "not_started" /\ run'.result.sql_file_exists
        /\ run'.phase = "parsed" =>
             run.phase = "file_checked" /\ run'.result.sql_parsed
        /\ run'.phase \in {"columns_extracted", "table_checked"} => run.phase = "parsed"
        /\ run'.phase = "done" =>
             \/ /\ run.phase \in {"columns_extracted", "table_checked"}
                /\ run'.result.errors = <<>>
             \/ /\ run.phase \in {"not_started", "file_checked"}
                /\ Len(run'.result.errors) = 1
                /\ ~run'.result.sql_parsed

\* what a phase tells of the steps before it
PhaseFollowsSuccess ==
    Running =>
        /\ PhaseRank(run.phase) \in 1..4 => run.result.sql_file_exists
        /\ PhaseRank(run.phase) \in 2..4 => run.result.sql_parsed
        /\ PhaseRank(run.phase) \in 0..4 => run.result.errors = <<>>
        /\ (run.checker = "table" /\ run.phase = "table_checked") =>
              run.column_results[run.index].sql_parsed

\* C17: each model check moves only forward through not_started,
\* file_checked, parsed, columns_extracted, (table_checked), done; no step runs
\* before its predecessor succeeded, a failure of the file check or of the
\* parse goes straight to done with its error, and every check reaches done.
C17_ForwardToDone ==
    /\ [][StepsForward]_vars
    /\ []PhaseFollowsSuccess
    /\ \A checker \in {"column", "table"} : \A index \in 1..Cardinality(ModelIds) :
          (run.checker = checker /\ run.index = index /\ run.phase = "not_started")
             ~> (run.checker = checker /\ run.index = index /\ run.phase = "done")

\* C17 witness: the table check of the second model is done after all its
\* steps, and the column check of the first model left early with an error.
C17_Witness ==
    /\ run.checker = "table" /\ run.index = 2 /\ run.phase = "done"
    /\ run.result.sql_parsed /\ run.result.errors = <<>>
    /\ Len(run.column_results[1].errors) = 1
    /\ run.column_results[2].sql_parsed


(***************************************************************************)
(* Wildcards and the precedence of output names (C21, C28 under SpecFn).   *)
(***************************************************************************)
\* a star or a qualified star in a projection list
IsWildcard(expression) ==
    expression.type \in {"Other", "Column"} /\ expression.name = <<"*">>

\* the projection list _extract_columns_from_sql reads, <<>> when there is none
FinalExpressions(parsed_sql) ==
    IF parsed_sql.branches = <<>> THEN <<>> ELSE parsed_sql.branches[1].expressions

\* C21: a wildcard projection (* or t.*) in the final SELECT contributes no
\* element to the extracted column set: the result is the set of names of the
\* other expressions, and holds no "*".
C21_WildcardSkipped ==
    Returned("_extract_columns_from_sql") =>
        LET es == FinalExpressions(call.arg)
            others == {es[i] : i \in {j \in DOMAIN es : ~IsWildcard(es[j])}}
        IN  /\ call.ret = {ColumnName(e) : e \in others} \ {None}
            /\ <<"*">> \notin call.ret

\* the names one expression gives, by the precedence alias, column name, other
\* non-empty name, nothing
NamesByPrecedence(expression) ==
    IF expression.type = "Alias" THEN {expression.alias}
    ELSE IF expression.type = "Column" THEN {expression.name}
    ELSE IF expression.name # <<>> THEN {expression.name}
    ELSE {}

\* C28: each expression of the final projection gives its alias when aliased,
\* else its column name when a direct column reference, else any non-empty
\* name it exposes, else nothing; each expression adds at most one name.
C28_NamePrecedence ==
    Returned("_extract_columns_from_sql") =>
        LET es == FinalExpressions(call.arg)
        IN  /\ call.ret = UNION {NamesByPrecedence(e) : e \in Range(es)}
            /\ \A e \in Range(es) : Cardinality(NamesByPrecedence(e)) <= 1
            /\ Cardinality(call.ret) <= Len(es)

\* C28 witness: an alias over a column, a direct column, a named call and a
\* call with no name are projected together; three names come back.
C28_Witness ==
    /\ Returned("_extract_columns_from_sql")
    /\ LET es == Range(FinalExpressions(call.arg))
       IN  /\ Alias(<<"y">>, <<"c">>) \in es
           /\ Column(<<"x">>) \in es
           /\ Other(<<"f">>) \in es
           /\ Other(<<>>) \in es
           /\ call.ret = {<<"y">>, <<"x">>, <<"f">>}

(***************************************************************************)
(* Letter case, duplicate keys and the flags of a result (C22, C27, C29    *)
(* under Spec).                                                            *)
(***************************************************************************)
\* the dotted reference of a Table node as the SQL text writes it
WrittenDotted(table) ==
    LET parts == TableParts(table)
    IN  IF Len(parts) = 3 THEN Dotted3(parts[1], parts[2], parts[3])
        ELSE IF Len(parts) = 2 THEN Dotted2(parts[1], parts[2])
        ELSE parts[1]

\* the names of the manifest's models and sources as the manifest writes them:
\* bare, schema-qualified and fully qualified
ManifestNamesAsWritten ==
    UNION {{d.name}
           \cup (IF Truthy(d.schema) THEN {Dotted2(d.schema, d.name)} ELSE {})
           \cup (IF Truthy(d.database) /\ Truthy(d.schema)
                 THEN {Dotted3(d.database, d.schema, d.name)} ELSE {}) :
            d \in Range(get_model_nodes(manifest_data))
                  \cup Range(get_source_nodes(manifest_data))}

\* the reference matched for a Table node is the node's own reference in lower
\* case: no substitution rewrote it
MatchedAsWritten(table) ==
    _apply_substitutions_to_reference(TableChecker,
            _normalize_table_reference(TableChecker, table)) = LowerDotted(table)

\* C22: a declared column and an extracted column that differ only in letter
\* case are a mismatch, the declared one in missing_in_sql and the extracted
\* one in extra_in_sql; a table reference that differs only in letter case
\* from a manifest entry is in valid_references.
C22_ColumnsCaseSensitiveTablesNot ==
    /\ \A r \in ColumnResults :
          r.sql_parsed =>
             \A d \in r.manifest_columns \ r.sql_columns :
                \A c \in r.sql_columns \ r.manifest_columns :
                    Lower(d) = Lower(c) =>
                        /\ d \in r.missing_in_sql
                        /\ c \in r.extra_in_sql
                        /\ ~r.columns_match
    /\ \A r \in TableResults :
          r.sql_parsed =>
             \A t \in BaseTables(TreeOf(r)) :
                (/\ MatchedAsWritten(t)
                 /\ \E e \in ManifestNamesAsWritten :
                       e # WrittenDotted(t) /\ Lower(e) = Lower(WrittenDotted(t)))
                   => LowerDotted(t) \in r.valid_references

\* C22 witness: the first model declares x and its file projects X; the second
\* model's file reads FROM A and the manifest names that model a; a qualified
\* reference a.b is matched to the manifest's a.B.
C22_Witness ==
    /\ \E r \in ColumnResults :
          /\ r.sql_parsed
          /\ <<"x">> \in r.missing_in_sql /\ <<"X">> \in r.extra_in_sql
    /\ \E r \in TableResults :
          /\ r.sql_parsed
          /\ \E t \in BaseTables(TreeOf(r)) :
                /\ WrittenDotted(t) = <<"A">> /\ <<"a">> \in ManifestNamesAsWritten
                /\ <<"a">> \in r.valid_references
    /\ \E r \in TableResults :
          /\ r.sql_parsed
          /\ \E t \in BaseTables(TreeOf(r)) :
                /\ WrittenDotted(t) = <<"a", ".", "b">> /\ MatchedAsWritten(t)
                /\ <<"a", ".", "B">> \in ManifestNamesAsWritten
                /\ <<"a", ".", "b">> \in r.valid_references

\* the models and then the sources, in the order their keys are inserted
Descriptors ==
    [i \in 1..Len(get_model_nodes(manifest_data)) |->
        [type |-> "model", node |-> get_model_nodes(manifest_data)[i]]]
    \o [i \in 1..Len(get_source_nodes(manifest_data)) |->
        [type |-> "source", node |-> get_source_nodes(manifest_data)[i]]]

\* the lower-case keys of a descriptor
KeysOf(d) ==
    LET n == Lower(d.node.name)
    IN  {n}
        \cup (IF Truthy(d.node.schema) THEN {Dotted2(Lower(d.node.schema), n)} ELSE {})
        \cup (IF Truthy(d.node.database) /\ Truthy(d.node.schema)
              THEN {Dotted3(Lower(d.node.database), Lower(d.node.schema), n)} ELSE {})

\* the position of the last descriptor that generates key k
LastWith(k) ==
    CHOOSE i \in DOMAIN Descriptors :
        /\ k \in KeysOf(Descriptors[i])
        /\ \A j \in DOMAIN Descriptors : k \in KeysOf(Descriptors[j]) => j <= i

\* the keys a model and a source both generate
SharedKeys ==
    {k \in UNION {KeysOf(Descriptors[i]) : i \in DOMAIN Descriptors} :
        /\ \E i \in DOMAIN Descriptors :
              Descriptors[i].type = "model" /\ k \in KeysOf(Descriptors[i])
        /\ \E i \in DOMAIN Descriptors :
              Descriptors[i].type = "source" /\ k \in KeysOf(Descriptors[i])}

\* C27: the lookup table holds every generated key, each with the entry of the
\* descriptor inserted last; models are inserted before sources, so a key a
\* model and a source share holds the source's entry and is still a key.
C27_LastInsertedKept ==
    referenceable_tables.built =>
        LET tables == referenceable_tables.tables
        IN  /\ DOMAIN tables = UNION {KeysOf(Descriptors[i]) : i \in DOMAIN Descriptors}
            /\ \A k \in DOMAIN tables :
                  /\ tables[k].unique_id = Descriptors[LastWith(k)].node.unique_id
                  /\ tables[k].type = Descriptors[LastWith(k)].type
            /\ \A k \in SharedKeys : k \in DOMAIN tables /\ tables[k].type = "source"

\* C27 witness: the table was built from a manifest whose model B and source b
\* both generate the key b, and b holds the source's entry.
C27_Witness ==
    /\ referenceable_tables.built
    /\ <<"b">> \in SharedKeys
    /\ referenceable_tables.tables[<<"b">>].unique_id = SourceId
    /\ \E k \in DOMAIN referenceable_tables.tables :
          referenceable_tables.tables[k].type = "model"

\* C29: in every result of either checker the errors list is empty iff
\* sql_parsed is true, sql_parsed implies sql_file_exists, and columns_match
\* or references_valid implies sql_parsed.
C29_FlagsAndErrors ==
    /\ \A r \in ColumnResults :
          /\ (r.errors = <<>>) <=> r.sql_parsed
          /\ r.sql_parsed => r.sql_file_exists
          /\ r.columns_match => r.sql_parsed
    /\ \A r \in TableResults :
          /\ (r.errors = <<>>) <=> r.sql_parsed
          /\ r.sql_parsed => r.sql_file_exists
          /\ r.references_valid => r.sql_parsed

\* C29 witness: a table result of a file that failed to parse, beside a column
\* result that matches and a table result whose references are all valid.
C29_Witness ==
    /\ \E r \in TableResults :
          r.sql_file_exists /\ ~r.sql_parsed /\ r.errors # <<>> /\ ~r.references_valid
    /\ \E r \in ColumnResults : r.sql_parsed /\ r.columns_match /\ r.errors = <<>>
    /\ \E r \in TableResults : r.sql_parsed /\ r.references_valid /\ r.errors = <<>>
    /\ \E r \in ColumnResults : ~r.sql_parsed /\ ~r.columns_match /\ r.errors # <<>>

(***************************************************************************)
(* A model with no declared path (C26 under SpecRunLive).                  *)
(***************************************************************************)
\* the models of the manifest that declare no file path
NoPathModels ==
    {id \in Range(ModelIdList) :
        \E n \in Range(manifest_data.nodes) :
            n.unique_id = id /\ n.original_file_path = None}

\* a result of a model with no declared path: one error, both flags false
NoPathResultShape(r) ==
    r.node_id \in NoPathModels =>
        /\ Len(r.errors) = 1
        /\ r.errors[1] = Error("No original_file_path found in manifest", None)
        /\ ~r.sql_file_exists /\ ~r.sql_parsed

\* both loops are over and hold a result for every model; those of the models
\* that declare a path are what their own checks give
AllModelsChecked ==
    /\ run.checker = "finished"
    /\ ResultIds(run.column_results) = ModelIdList
    /\ run.check_tables => ResultIds(run.table_results) = ModelIdList
    /\ \A i \in DOMAIN run.column_results :
          run.column_results[i] = check_model_columns(ColumnChecker, ModelIdList[i], sql_files)
    /\ \A i \in DOMAIN run.table_results :
          run.table_results[i] =
             check_model_table_references(TableChecker, ModelIdList[i], sql_files)

\* C26: a model whose manifest entry declares no file path gets a result with
\* exactly one error, sql_file_exists false and sql_parsed false, and after it
\* the loop goes on: the checks of the other models run and return results.
C26_NoPathOneErrorOthersRun ==
    /\ [](/\ \A i \in DOMAIN run.column_results : NoPathResultShape(run.column_results[i])
          /\ \A i \in DOMAIN run.table_results : NoPathResultShape(run.table_results[i])
          /\ (Running /\ run.phase = "done") => NoPathResultShape(run.result))
    /\ (Running /\ run.phase = "done" /\ run.result.node_id \in NoPathModels)
          ~> AllModelsChecked

\* C26 witness: the first model declares no path; both loops went on to the
\* second model, whose file parsed.
C26_Witness ==
    /\ run.checker = "finished" /\ run.check_tables
    /\ ModelId1 \in NoPathModels
    /\ Len(run.column_results) = 2 /\ Len(run.table_results) = 2
    /\ Len(run.column_results[1].errors) = 1 /\ ~run.column_results[1].sql_file_exists
    /\ Len(run.table_results[1].errors) = 1 /\ ~run.table_results[1].sql_file_exists
    /\ run.column_results[2].sql_parsed /\ run.table_results[2].sql_parsed

(***************************************************************************)
(* SpecMain: one run of the command line, cli.py main, a step at a time.   *)
(* call.arg holds the options and the state of the files they name;        *)
(* manifest_data is the content of the manifest file when it is JSON;      *)
(* database_substitutions and schema_substitutions are main's parsed maps; *)
(* run holds main's other locals, its position (stage) and, once the       *)
(* process has ended, its exit status and last message.                    *)
(***************************************************************************)
\* a call that raised, and a call that returned
Raised(error) == [raised |-> TRUE, error |-> error]

Value(value) == [raised |-> FALSE, value |-> value]

\* "=" in sub_str
HasEquals(sub_str) == \E i \in DOMAIN sub_str : sub_str[i] = "="

\* the position of the first "=", where split("=", 1) cuts
FirstEquals(sub_str) ==
    CHOOSE i \in DOMAIN sub_str :
        sub_str[i] = "=" /\ \A j \in 1..(i - 1) : sub_str[j] # "="

\* str.strip(), over spaces
Strip(s) ==
    LET kept == {i \in DOMAIN s : s[i] # " "}
    IN  IF kept = {} THEN <<>>
        ELSE SubSeq(s, CHOOSE i \in kept : \A j \in kept : i <= j,
                       CHOOSE i \in kept : \A j \in kept : j <= i)

\* the loop of _parse_substitutions over the strings left
RECURSIVE ParseSubstitutionsFrom(_, _)
ParseSubstitutionsFrom(substitutions, substitution_strings) ==
    IF substitution_strings = <<>> THEN Value(substitutions)
    ELSE LET sub_str == Head(substitution_strings)
         IN  IF ~HasEquals(sub_str) THEN Raised("ValueError")
             ELSE LET i == FirstEquals(sub_str)
                      original == Strip(SubSeq(sub_str, 1, i - 1))
                      substitute == Strip(SubSeq(sub_str, i + 1, Len(sub_str)))
                  IN  ParseSubstitutionsFrom(
                          [k \in DOMAIN substitutions \cup {original} |->
                              IF k = original THEN substitute ELSE substitutions[k]],
                          Tail(substitution_strings))

\* a mutant of _parse_substitutions: a string without "=" is skipped
_parse_substitutions_skipping_invalid(substitution_strings) ==
    ParseSubstitutionsFrom(<<>>, SelectSeq(substitution_strings, HasEquals))

_parse_substitutions(substitution_strings) ==
    ParseSubstitutionsFrom(<<>>, substitution_strings)

\* DbtManifest._load_manifest on a file that is missing, not JSON, or JSON
_load_manifest(manifest_file, content) ==
    IF manifest_file = "missing" THEN Raised("FileNotFoundError")
    ELSE IF manifest_file = "malformed" THEN Raised("ValueError")
    ELSE Value(content)

\* ManifestRequirementsChecker._load_config on a file that is not YAML, or YAML
_load_config(requirements_config) ==
    IF requirements_config.yaml = "malformed" THEN Raised("ValueError")
    ELSE Value(requirements_config)

\* _validate_column_requirements: one error per required column not declared
RECURSIVE _validate_column_requirements(_, _)
_validate_column_requirements(model_columns, required_columns) ==
    IF required_columns = <<>> THEN <<>>
    ELSE (IF Head(required_columns) \notin model_columns
          THEN <<Error("Missing required column", Head(required_columns))>>
          ELSE <<>>)
         \o _validate_column_requirements(model_columns, Tail(required_columns))

\* ManifestRequirementsChecker.check_model_requirements, for a configuration
\* that holds only required_columns.always
check_model_requirements(self, node_id) ==
    IF NodesGet(self.manifest, node_id) = <<>>
    THEN [node_id |-> node_id, requirements_valid |-> FALSE,
          errors |-> <<Error("Model not found in manifest", node_id)>>]
    ELSE LET errors == _validate_column_requirements(
                           get_model_columns(self.manifest, node_id), self.config.always)
         IN  [node_id |-> node_id, requirements_valid |-> (Len(errors) = 0),
              errors |-> errors]

\* SqlColumnChecker.check_all_models
ColumnCheckAllModels(self, files) ==
    [i \in DOMAIN get_model_nodes(self.manifest) |->
        check_model_columns(self, get_model_nodes(self.manifest)[i].unique_id, files)]

\* SqlTableChecker.check_all_models
TableCheckAllModels(self, files) ==
    [i \in DOMAIN get_model_nodes(self.manifest) |->
        check_model_table_references(self, get_model_nodes(self.manifest)[i].unique_id,
                                     files)]

\* ManifestRequirementsChecker.check_all_models
RequirementsCheckAllModels(self) ==
    [i \in DOMAIN get_model_nodes(self.manifest) |->
        check_model_requirements(self, get_model_nodes(self.manifest)[i].unique_id)]

\* {result["node_id"]: result for result in results}
RECURSIVE ResultsMap(_)
ResultsMap(results) ==
    IF results = <<>> THEN <<>>
    ELSE LET rest == ResultsMap(SubSeq(results, 1, Len(results) - 1))
             last == results[Len(results)]
         IN  [k \in DOMAIN rest \cup {last.node_id} |->
                 IF k = last.node_id THEN last ELSE rest[k]]

\* a mutant of CountFailure: every failed check of a model is counted
CountFailure_every_check(counts) ==
    [counts EXCEPT !.failed_checks = @ + 1, !.model_failed = TRUE]

\* if not model_failed: failed_checks += 1; model_failed = True
CountFailure(counts) ==
    IF ~counts.model_failed
    THEN [counts EXCEPT !.failed_checks = @ + 1, !.model_failed = TRUE]
    ELSE counts

\* one pass of the loop `for result in column_results` of main
ProcessModel(counts, result, table_results_map, requirements_results_map) ==
    LET node_id == result.node_id
        start == [counts EXCEPT !.model_failed = FALSE]
        after_columns ==
            IF result.errors # <<>> \/ ~result.columns_match
            THEN [start EXCEPT !.failed_checks = @ + 1, !.model_failed = TRUE]
            ELSE start
        after_tables ==
            IF node_id \in DOMAIN table_results_map
               /\ (\/ table_results_map[node_id].errors # <<>>
                   \/ ~table_results_map[node_id].references_valid)
            THEN CountFailure(after_columns)
            ELSE after_columns
        after_requirements ==
            IF node_id \in DOMAIN requirements_results_map
               /\ (\/ requirements_results_map[node_id].errors # <<>>
                   \/ ~requirements_results_map[node_id].requirements_valid)
            THEN CountFailure(after_tables)
            ELSE after_tables
    IN  IF ~after_requirements.model_failed
        THEN [after_requirements EXCEPT !.successful_checks = @ + 1]
        ELSE after_requirements

\* a mutant of ExitStatus: the run reports success whatever was counted
ExitStatus_always_success(failed_checks) == 0

\* if failed_checks > 0: exit(1); else main returns and the process ends with 0
ExitStatus(failed_checks) == IF failed_checks > 0 THEN 1 ELSE 0

\* the strings of one --database-substitution or --schema-substitution option
A_EQ_B == <<"a", " ", "=", " ", "B">>

A_EQ_b == <<"a", "=", "b">>

NO_EQUALS == <<"a", "b">>

\* a requirements file that is not YAML, and two that are: every model must
\* declare x, every model must declare y
MainConfigs ==
    {[yaml |-> "malformed", always |-> <<>>],
     [yaml |-> "valid", always |-> <<<<"x">>>>],
     [yaml |-> "valid", always |-> <<<<"y">>>>]}

\* --requirements-config is not given
NoConfig == [yaml |-> "none", always |-> <<>>]

\* the options of a run and the state of the files they name.  --manifest and
\* --requirements-config are click.Path(exists=True)
MainArgs ==
    [manifest : {"missing", "malformed", "valid"},
     database_substitution : {<<>>, <<A_EQ_B>>, <<A_EQ_B, NO_EQUALS>>},
     schema_substitution : {<<>>, <<A_EQ_b>>, <<NO_EQUALS>>},
     check_tables : BOOLEAN,
     check_requirements : BOOLEAN,
     requirements_config : {NoConfig} \cup MainConfigs]

\* the manifests of a run of main: both models declare a path
MainManifests == {m \in Manifests : m.nodes[3].original_file_path # None}

\* the second model's file when it matches its declaration: SELECT x FROM b.b
FileTree2Matching ==
    Tree("Select", <<>>,
         <<Select(<<Column(<<"x">>)>>, <<Table(<<>>, <<"b">>, <<"b">>)>>)>>)

\* the compiled SQL directory of a run of main: the first model's file is
\* missing, unparseable or a tree that reads one table; the second model's is
\* unparseable, projects a column it does not declare, or matches
MainFileSystems ==
    {[p \in P |-> IF p = _get_sql_file_path(Path1) THEN c1 ELSE c2] :
        P \in {{_get_sql_file_path(Path2)},
               {_get_sql_file_path(Path1), _get_sql_file_path(Path2)}},
        c1 \in {Garbage} \cup {t \in FileTrees : Len(t.branches[1].tables) = 1},
        c2 \in {Garbage, FileTree2, FileTree2Matching}}

\* main's locals when it is entered
MainLocals ==
    [stage |-> "click", config |-> NoConfig,
     column_results |-> <<>>, table_results |-> <<>>, requirements_results |-> <<>>,
     index |-> 1, total_models |-> 0, successful_checks |-> 0, failed_checks |-> 0,
     model_failed |-> FALSE, exit_status |-> -1, output |-> <<>>]

InitMain ==
    /\ manifest_data \in MainManifests
    /\ sql_files \in MainFileSystems
    /\ database_substitutions = <<>>
    /\ schema_substitutions = <<>>
    /\ referenceable_tables = [built |-> FALSE, tables |-> <<>>]
    /\ column_results = [id \in ModelIds |-> NoResult]
    /\ table_results = [id \in ModelIds |-> NoResult]
    /\ call \in {Pending("main", a) : a \in MainArgs}
    /\ run = MainLocals

\* main goes on to the next stage
Goto(stage) == [run EXCEPT !.stage = stage]

\* the process ends: exit(status) after the message, or main returns
Exit(status, message) ==
    [run EXCEPT !.stage = "exited", !.exit_status = status, !.output = message]

\* except Exception as e: click.echo(f"Error: {e}"); exit(1)
ExceptExit(error) == Exit(1, <<"Error", error>>)

MainStep(r) ==
    /\ run' = r
    /\ UNCHANGED <<manifest_data, sql_files, database_substitutions, schema_substitutions,
                   referenceable_tables, column_results, table_results, call>>

\* click converts the options: a --manifest path that does not exist is a
\* usage error, status 2, and main is not entered
ClickValidate ==
    /\ run.stage = "click"
    /\ MainStep(IF call.arg.manifest = "missing"
                THEN Exit(2, <<"Error", "Invalid value for --manifest">>)
                ELSE Goto("validate"))

\* if check_requirements and not requirements_config: exit(1)
ValidateRequirementsOption ==
    /\ run.stage = "validate"
    /\ MainStep(IF call.arg.check_requirements /\ call.arg.requirements_config = NoConfig
                THEN Exit(1, <<"Error", "--requirements-config is required">>)
                ELSE Goto("substitutions"))

\* db_substitutions = _parse_substitutions(database_substitution), and schema
ParseSubstitutions ==
    /\ run.stage = "substitutions"
    /\ LET db == _parse_substitutions(call.arg.database_substitution)
           schema == _parse_substitutions(call.arg.schema_substitution)
       IN  IF db.raised \/ schema.raised
           THEN /\ run' = ExceptExit("ValueError")
                /\ UNCHANGED <<database_substitutions, schema_substitutions>>
           ELSE /\ run' = Goto("manifest")
                /\ database_substitutions' = db.value
                /\ schema_substitutions' = schema.value
    /\ UNCHANGED <<manifest_data, sql_files, referenceable_tables, column_results,
                   table_results, call>>

\* dbt_manifest = DbtManifest(manifest, restrict_files), no restriction given
LoadManifest ==
    /\ run.stage = "manifest"
    /\ LET loaded == _load_manifest(call.arg.manifest, manifest_data)
       IN  MainStep(IF loaded.raised THEN ExceptExit(loaded.error) ELSE Goto("checkers"))

\* the checkers are constructed; the requirements checker loads its file
InitCheckers ==
    /\ run.stage = "checkers"
    /\ IF call.arg.check_requirements
       THEN LET loaded == _load_config(call.arg.requirements_config)
            IN  MainStep(IF loaded.raised THEN ExceptExit(loaded.error)
                         ELSE [Goto("columns") EXCEPT !.config = loaded.value])
       ELSE MainStep(Goto("columns"))

\* column_results = column_checker.check_all_models()
RunColumnChecks ==
    /\ run.stage = "columns"
    /\ MainStep([Goto("tables") EXCEPT
                    !.column_results = ColumnCheckAllModels(ColumnChecker, sql_files)])

\* if check_tables: table_results = table_checker.check_all_models()
RunTableChecks ==
    /\ run.stage = "tables"
    /\ run' = IF call.arg.check_tables
              THEN [Goto("requirements") EXCEPT
                       !.table_results = TableCheckAllModels(TableChecker, sql_files)]
              ELSE Goto("requirements")
    /\ referenceable_tables' =
          IF call.arg.check_tables
             /\ \E i \in DOMAIN run'.table_results : run'.table_results[i].sql_parsed
          THEN [built |-> TRUE, tables |-> LookupForMatching(TableChecker)]
          ELSE referenceable_tables
    /\ UNCHANGED <<manifest_data, sql_files, database_substitutions, schema_substitutions,
                   column_results, table_results, call>>

\* if check_requirements: requirements_results = requirements_checker.check_all_models()
RunRequirementsChecks ==
    /\ run.stage = "requirements"
    /\ MainStep([Goto("results") EXCEPT
                    !.requirements_results =
                        IF call.arg.check_requirements
                        THEN RequirementsCheckAllModels(
                                 [manifest |-> manifest_data, config |-> run.config])
                        ELSE <<>>,
                    !.total_models = Len(run.column_results),
                    !.index = 1])

\* one pass of `for result in column_results`
ProcessResult ==
    /\ run.stage = "results" /\ run.index <= Len(run.column_results)
    /\ MainStep([ProcessModel(run, run.column_results[run.index],
                              ResultsMap(run.table_results),
                              ResultsMap(run.requirements_results))
                    EXCEPT !.index = run.index + 1])

\* the summary, and the end of the process
Summary ==
    /\ run.stage = "results" /\ run.index > Len(run.column_results)
    /\ MainStep(Exit(ExitStatus(run.failed_checks),
                     IF run.failed_checks > 0 THEN <<"Some checks failed">>
                     ELSE <<"All checks passed!">>))

NextMain ==
    \/ ClickValidate
    \/ ValidateRequirementsOption
    \/ ParseSubstitutions
    \/ LoadManifest
    \/ InitCheckers
    \/ RunColumnChecks
    \/ RunTableChecks
    \/ RunRequirementsChecks
    \/ ProcessResult
    \/ Summary

SpecMain == InitMain /\ [][NextMain]_vars

\* the process is one thread that runs until it exits
SpecMainLive == SpecMain /\ WF_vars(NextMain)

(***************************************************************************)
(* The end of a run (C23, C30 under SpecMain; C24 under SpecMainLive).     *)
(***************************************************************************)
\* an option or a file stops main before its checks: the manifest is missing
\* or not JSON, a substitution string has no "=", or requirements checking is
\* asked for with no configuration or with one that is not YAML
BadSubstitution ==
    \E sub_str \in Range(call.arg.database_substitution)
                   \cup Range(call.arg.schema_substitution) :
        "=" \notin Range(sub_str)

MalformedYaml ==
    call.arg.check_requirements /\ call.arg.requirements_config.yaml = "malformed"

FatalInput ==
    \/ call.arg.manifest \in {"missing", "malformed"}
    \/ MalformedYaml
    \/ BadSubstitution

StartUpFails ==
    FatalInput \/ (call.arg.check_requirements /\ call.arg.requirements_config = NoConfig)

\* the model fails an enabled check: an error or a mismatch in its column
\* check, an error or an invalid reference in its table check, a required
\* column it does not declare
FailsColumns(id) ==
    LET r == check_model_columns(ColumnChecker, id, sql_files)
    IN  r.errors # <<>> \/ r.missing_in_sql # {} \/ r.extra_in_sql # {}

FailsTables(id) ==
    /\ call.arg.check_tables
    /\ LET r == check_model_table_references(TableChecker, id, sql_files)
       IN  r.errors # <<>> \/ r.invalid_references # {}

FailsRequirements(id) ==
    /\ call.arg.check_requirements
    /\ \E c \in Range(call.arg.requirements_config.always) :
          c \notin get_model_columns(manifest_data, id)

ModelFails(id) == FailsColumns(id) \/ FailsTables(id) \/ FailsRequirements(id)

Processed == {ModelIdList[i] : i \in 1..(run.index - 1)}

\* C30: in the summary every model is counted exactly once: a model that fails
\* several enabled checks adds one to the failed count, and passed plus failed
\* is the number of models when the loop is over.
C30_CountedOnce ==
    run.stage \in {"results", "exited"} /\ ~StartUpFails =>
        /\ run.failed_checks = Cardinality({id \in Processed : ModelFails(id)})
        /\ run.successful_checks = Cardinality({id \in Processed : ~ModelFails(id)})
        /\ run.successful_checks + run.failed_checks = run.index - 1
        /\ run.stage = "exited" =>
              /\ run.successful_checks + run.failed_checks = run.total_models
              /\ run.total_models = Len(ModelIdList)

\* C30 witness: the run is over; one model failed its column check, its table
\* check and its requirements check and is counted once, the other passed.
C30_Witness ==
    /\ run.stage = "exited" /\ ~StartUpFails
    /\ \E id \in Range(ModelIdList) :
          FailsColumns(id) /\ FailsTables(id) /\ FailsRequirements(id)
    /\ run.failed_checks = 1 /\ run.successful_checks = 1 /\ run.total_models = 2

\* no per-model check has started
NoCheckStarted ==
    /\ run.stage \notin {"columns", "tables", "requirements", "results"}
    /\ run.column_results = <<>>
    /\ run.table_results = <<>>
    /\ run.requirements_results = <<>>

\* C24: a missing manifest, a manifest that is not JSON, a requirements file
\* that is not YAML, or a substitution string without "=" ends the run with a
\* failure status before any per-model check starts: no result is produced.
C24_FatalBeforeChecks ==
    /\ [](FatalInput => NoCheckStarted)
    /\ [](FatalInput /\ run.stage = "exited" => run.exit_status \in {1, 2})
    /\ (FatalInput ~> run.stage = "exited")

\* C24 witness: the manifest is JSON and every substitution has its "=", the
\* requirements file is not YAML, and the run ended with status 1 and no result.
C24_Witness ==
    /\ run.stage = "exited" /\ run.exit_status = 1
    /\ call.arg.manifest = "valid" /\ ~BadSubstitution /\ MalformedYaml
    /\ call.arg.database_substitution # <<>>
    /\ NoCheckStarted

(***************************************************************************)
(* Restriction to a list of files (C25 under SpecFn).                      *)
(***************************************************************************)
\* a patch_path with its leading package:// prefix removed, if it has one
WithoutPackage(patch_path) ==
    IF Len(patch_path) >= 2 /\ patch_path[2] = "://"
    THEN SubSeq(patch_path, 3, Len(patch_path))
    ELSE patch_path

====
